---- MODULE Spec2Model ----
(***************************************************************************)
(* Model of the Scout API move predictor (src/scout-api/predictor.py,      *)
(* heuristics.py, engine.py).                                               *)
(*                                                                         *)
(* Conventions.                                                            *)
(*  - Weights (alpha, beta, gamma) and style-fit contributions are kept in *)
(*    hundredths (0.70 is 70).  Style markers are kept in tenths of a      *)
(*    point (75 is 750; the values used are even, so 1.5 * x is exact).    *)
(*  - Real-valued quotients are kept exactly, as a pair <<num, den>> with  *)
(*    den > 0; comparisons cross-multiply.  The floating-point rounding of *)
(*    the Python code is not modelled.                                     *)
(*  - A chess position is abstracted to what the predictor reads from it:  *)
(*    whether the FEN parses, which SANs are legal, what the engine        *)
(*    reports for it, and the board features the heuristics test.          *)
(***************************************************************************)
EXTENDS Integers, Sequences, FiniteSets, TLC

VARIABLES
    req,              \* the PredictionRequest being served
    engine_state,     \* condition of the shared engine process
    pc,               \* position inside ScoutPredictor.predict
    weights,          \* PhaseWeights chosen by _get_dynamic_weights
    habit_detection,  \* HabitDetection from _detect_habit
    tilt_active,      \* result of ChessHeuristics.detect_tilt
    working_markers,  \* style markers used downstream (tilted or not)
    engine_analysis,  \* result of engine.analyze_position (Multi-PV)
    candidate_sans,   \* hybrid: SANs of the extended candidate set
    history_additions,\* hybrid: synthetic analyses appended from history
    hist_i,           \* hybrid: index of the next history move to look at
    trace_log,        \* list of TraceLogEntry
    call_log,         \* engine calls made so far, in order
    rng,              \* random draws consumed so far, in order
    response,         \* the PredictionResponse, or the raised error
    http_request,     \* body posted to /predict, None for a direct call
    http_response,    \* what the /predict handler returned, None before
    tasks,            \* server: the handlers the event loop has accepted
    in_flight         \* server: engine calls running on the engine process

predict_vars == <<req, engine_state, pc, weights, habit_detection, tilt_active,
                  working_markers, engine_analysis, candidate_sans,
                  history_additions, hist_i, trace_log, call_log, rng, response>>

server_vars == <<http_request, http_response, tasks, in_flight>>

vars == <<predict_vars, server_vars>>

None == "None"

(***************************************************************************)
(* Generic helpers                                                         *)
(***************************************************************************)
RECURSIVE SumFreq(_)
SumFreq(hs) ==
    IF hs = <<>> THEN 0 ELSE Head(hs).frequency + SumFreq(Tail(hs))

RECURSIVE SumSquares(_)
SumSquares(hs) ==
    IF hs = <<>> THEN 0
    ELSE Head(hs).frequency * Head(hs).frequency + SumSquares(Tail(hs))

Range(s) == {s[i] : i \in 1..Len(s)}

Sans(s) == {s[i].move_san : i \in 1..Len(s)}

Max2(a, b) == IF a >= b THEN a ELSE b
Min2(a, b) == IF a <= b THEN a ELSE b
Abs(a) == IF a < 0 THEN -a ELSE a

\* Faulty variant: the sort ascending (reverse=True dropped).
RECURSIVE InsertByFreqAscending(_, _)
InsertByFreqAscending(hm, sorted) ==
    IF sorted = <<>> THEN <<hm>>
    ELSE IF hm.frequency <= Head(sorted).frequency
         THEN <<hm>> \o sorted
         ELSE <<Head(sorted)>> \o InsertByFreqAscending(hm, Tail(sorted))

\* Python sorted(..., key=frequency, reverse=True): stable, descending.
RECURSIVE InsertByFreq(_, _)
InsertByFreq(hm, sorted) ==
    IF sorted = <<>> THEN <<hm>>
    ELSE IF hm.frequency >= Head(sorted).frequency
         THEN <<hm>> \o sorted
         ELSE <<Head(sorted)>> \o InsertByFreq(hm, Tail(sorted))

RECURSIVE sorted_history(_)
sorted_history(hs) ==
    IF hs = <<>> THEN <<>>
    ELSE InsertByFreq(Head(hs), sorted_history(Tail(hs)))

(***************************************************************************)
(* Class constants of ScoutPredictor                                       *)
(***************************************************************************)
PHASE_WEIGHTS ==
    [opening    |-> [history |-> 70, engine |-> 10, style |-> 20],
     middlegame |-> [history |-> 10, engine |-> 40, style |-> 50],
     endgame    |-> [history |->  5, engine |-> 80, style |-> 15]]

\* Faulty variant: the non-opponent-turn table keeps a style share.
NON_OPP_TURN_WEIGHTS_WITH_STYLE ==
    [opening    |-> [history |-> 70, engine |-> 20, style |-> 10],
     middlegame |-> [history |-> 30, engine |-> 60, style |-> 10],
     endgame    |-> [history |-> 30, engine |-> 60, style |-> 10]]

NON_OPP_TURN_WEIGHTS ==
    [opening    |-> [history |-> 80, engine |-> 20, style |-> 0],
     middlegame |-> [history |-> 30, engine |-> 70, style |-> 0],
     endgame    |-> [history |-> 30, engine |-> 70, style |-> 0]]

HABIT_WEIGHTS      == [history |-> 90, engine |->  5, style |->  5]
CHAMELEON_WEIGHTS  == [history |-> 20, engine |-> 20, style |-> 60]
LOW_SAMPLE_WEIGHTS == [history |->  0, engine |-> 30, style |-> 70]

MIN_SAMPLE_SIZE == 5
HABIT_PI_THRESHOLD == 85          \* 0.85, in hundredths
CHAMELEON_PI_THRESHOLD == 40      \* 0.40, in hundredths
HABIT_DISPLAY_THRESHOLD == 90     \* 0.90, in hundredths
HABIT_MIN_SAMPLE == 10

(***************************************************************************)
(* Weight Selector                                                         *)
(***************************************************************************)
determine_phase(move_number) ==
    IF move_number <= 12 THEN "opening"
    ELSE IF move_number <= 35 THEN "middlegame"
    ELSE "endgame"

\* Faulty variant: the shares summed without squaring.
calculate_pi_unsquared(history_moves) ==
    IF history_moves = <<>> THEN [pi |-> <<0, 1>>, n |-> 0]
    ELSE LET total == SumFreq(history_moves) IN
         IF total = 0 THEN [pi |-> <<0, 1>>, n |-> 0]
         ELSE [pi |-> <<SumFreq(history_moves) * total, total * total>>,
               n  |-> total]

\* Returns [pi |-> <<num, den>>, n |-> N]; pi = sum (f/N)^2 = sum f^2 / N^2.
calculate_pi(history_moves) ==
    IF history_moves = <<>> THEN [pi |-> <<0, 1>>, n |-> 0]
    ELSE LET total == SumFreq(history_moves) IN
         IF total = 0 THEN [pi |-> <<0, 1>>, n |-> 0]
         ELSE [pi |-> <<SumSquares(history_moves), total * total>>,
               n  |-> total]

\* pi > t/100 and pi < t/100 for pi = <<num, den>>, den > 0.
PiAbove(pi, t) == 100 * pi[1] > t * pi[2]
PiBelow(pi, t) == 100 * pi[1] < t * pi[2]

PiAboveOrEqual(pi, t) == 100 * pi[1] >= t * pi[2]
PiBelowOrEqual(pi, t) == 100 * pi[1] <= t * pi[2]

\* Faulty variant: the habit and chameleon tests made non-strict.
weight_regime_nonstrict(pi, sample_size) ==
    IF sample_size < MIN_SAMPLE_SIZE THEN "low_sample"
    ELSE IF PiAboveOrEqual(pi, HABIT_PI_THRESHOLD) THEN "habit"
    ELSE IF PiBelowOrEqual(pi, CHAMELEON_PI_THRESHOLD) THEN "chameleon"
    ELSE "phase"

\* The regime chosen for an opponent-turn request (lines 142-160).
weight_regime(pi, sample_size) ==
    IF sample_size < MIN_SAMPLE_SIZE THEN "low_sample"
    ELSE IF PiAbove(pi, HABIT_PI_THRESHOLD) THEN "habit"
    ELSE IF PiBelow(pi, CHAMELEON_PI_THRESHOLD) THEN "chameleon"
    ELSE "phase"

\* Faulty variant: the endgame row of the phase table mistyped (0.05 as 0.5).
regime_weights_bad_row(weight_mode, phase) ==
    CASE weight_mode = "low_sample" -> LOW_SAMPLE_WEIGHTS
      [] weight_mode = "habit"      -> HABIT_WEIGHTS
      [] weight_mode = "chameleon"  -> CHAMELEON_WEIGHTS
      [] phase = "endgame"          -> [history |-> 50, engine |-> 80, style |-> 15]
      [] OTHER                      -> PHASE_WEIGHTS[phase]

regime_weights(weight_mode, phase) ==
    CASE weight_mode = "low_sample" -> LOW_SAMPLE_WEIGHTS
      [] weight_mode = "habit"      -> HABIT_WEIGHTS
      [] weight_mode = "chameleon"  -> CHAMELEON_WEIGHTS
      [] OTHER                      -> PHASE_WEIGHTS[phase]

get_dynamic_weights(move_number, history_moves, is_opponent_turn) ==
    LET phase == determine_phase(move_number) IN
    IF ~is_opponent_turn
    THEN LET w == NON_OPP_TURN_WEIGHTS[phase] IN
         [phase |-> phase, history |-> w.history, engine |-> w.engine,
          style |-> w.style, predictability_index |-> <<0, 1>>,
          sample_size |-> IF history_moves # <<>>
                          THEN SumFreq(history_moves) ELSE 0,
          weight_mode |-> "non_opponent_turn"]
    ELSE LET p    == calculate_pi(history_moves)
             mode == weight_regime(p.pi, p.n)
             w    == regime_weights(mode, phase)
         IN [phase |-> phase, history |-> w.history, engine |-> w.engine,
             style |-> w.style, predictability_index |-> p.pi,
             sample_size |-> p.n, weight_mode |-> mode]

(***************************************************************************)
(* Habit Detector                                                          *)
(***************************************************************************)
NoHabit(n) ==
    [detected |-> FALSE, move |-> None, frequency |-> <<0, 1>>,
     sample_size |-> n]

\* Faulty variant: the sample test as the docstring words it (N > 10).
detect_habit_above_min(history_moves) ==
    IF history_moves = <<>> THEN NoHabit(0)
    ELSE LET total == SumFreq(history_moves) IN
         IF total <= HABIT_MIN_SAMPLE THEN NoHabit(total)
         ELSE LET top_move == sorted_history(history_moves)[1] IN
              IF 100 * top_move.frequency >= HABIT_DISPLAY_THRESHOLD * total
              THEN [detected |-> TRUE, move |-> top_move.move_san,
                    frequency |-> <<100 * top_move.frequency, total>>,
                    sample_size |-> total]
              ELSE NoHabit(total)

detect_habit(history_moves) ==
    IF history_moves = <<>> THEN NoHabit(0)
    ELSE LET total == SumFreq(history_moves) IN
         IF total < HABIT_MIN_SAMPLE THEN NoHabit(total)
         ELSE LET top_move == sorted_history(history_moves)[1] IN
              \* freq_pct = f / total * 100 >= 0.90 * 100
              IF 100 * top_move.frequency >= HABIT_DISPLAY_THRESHOLD * total
              THEN [detected |-> TRUE, move |-> top_move.move_san,
                    frequency |-> <<100 * top_move.frequency, total>>,
                    sample_size |-> total]
              ELSE NoHabit(total)

(***************************************************************************)
(* The position, as python-chess and the engine present it.  Five abstract *)
(* FENs: one that does not parse, one terminal, three playable.            *)
(***************************************************************************)
Positions == {"fen_invalid", "fen_mate", "fen_open", "fen_flat", "fen_sharp"}

\* chess.Board(fen) raises ValueError for a malformed FEN.
FenParses(fen) == fen # "fen_invalid"

\* board.legal_moves, as SANs.
LegalSans(fen) ==
    CASE fen = "fen_open"  -> {"e4", "d4", "Nf3", "c4", "Nc3", "h3", "a3"}
      [] fen = "fen_flat"  -> {"e4", "d4", "Nf3", "c4", "Nc3", "h3", "a3"}
      [] fen = "fen_sharp" -> {"e4", "d4", "Nf3"}
      [] OTHER             -> {}

\* list(board.legal_moves): the move generator's order.
LegalList(fen) ==
    CASE fen = "fen_open"  -> <<"a3", "c4", "d4", "e4", "h3", "Nc3", "Nf3">>
      [] fen = "fen_flat"  -> <<"a3", "c4", "d4", "e4", "h3", "Nc3", "Nf3">>
      [] fen = "fen_sharp" -> <<"d4", "e4", "Nf3">>
      [] OTHER             -> <<>>

\* move.uci() of the move a SAN parses to.
Uci(san) ==
    CASE san = "e4"  -> "e2e4"
      [] san = "d4"  -> "d2d4"
      [] san = "Nf3" -> "g1f3"
      [] san = "c4"  -> "c2c4"
      [] san = "Nc3" -> "b1c3"
      [] san = "h3"  -> "h2h3"
      [] san = "a3"  -> "a2a3"
      [] OTHER       -> None

\* board.parse_san(san) succeeds exactly for the SAN of a legal move; for
\* anything else it raises, which the callers catch.
ParseSanOk(fen, san) == san \in LegalSans(fen)

\* What the engine's Multi-PV search (depth 18, multipv 5) reports, in the
\* engine's rank order: at most MULTIPV lines, scores from the side to move.
MULTIPV == 5

EngineLines(fen) ==
    CASE fen = "fen_open" ->
            << [move_san |-> "e4",  score_cp |-> 35],
               [move_san |-> "d4",  score_cp |-> 30],
               [move_san |-> "Nf3", score_cp |-> 25],
               [move_san |-> "c4",  score_cp |-> 20],
               [move_san |-> "Nc3", score_cp |-> 10] >>
      [] fen = "fen_flat" ->
            << [move_san |-> "e4",  score_cp |-> 20],
               [move_san |-> "d4",  score_cp |-> 20],
               [move_san |-> "Nf3", score_cp |-> 20],
               [move_san |-> "c4",  score_cp |-> 20],
               [move_san |-> "Nc3", score_cp |-> 20] >>
      [] fen = "fen_sharp" ->
            << [move_san |-> "e4",  score_cp |-> 320],
               [move_san |-> "d4",  score_cp |-> 40],
               [move_san |-> "Nf3", score_cp |-> 0] >>
      [] OTHER -> <<>>

\* What the depth-12 search after pushing a move reports, already negated
\* to the mover's side.  It is a different search from the Multi-PV one, so
\* it may lie above the Multi-PV best or below the Multi-PV worst.
SingleScore(fen, san) ==
    CASE fen = "fen_open" /\ san = "h3" -> -20
      [] fen = "fen_open" /\ san = "a3" -> 50
      [] fen = "fen_flat" /\ san = "h3" -> 20
      [] fen = "fen_flat" /\ san = "a3" -> -40
      [] OTHER -> 0

\* ChessHeuristics.calculate_board_tension(board).
Tension(fen) ==
    CASE fen = "fen_open"  -> 4
      [] fen = "fen_flat"  -> 0
      [] fen = "fen_sharp" -> 12
      [] OTHER             -> 0

\* The feature tests of the heuristics on (board, move).
BoardFeatures(fen, san) ==
    CASE fen = "fen_open" /\ san = "e4"  -> {"king_pressure"}
      [] fen = "fen_open" /\ san = "d4"  -> {"queen_trade"}
      [] fen = "fen_open" /\ san = "Nf3" -> {"check_or_threat"}
      [] fen = "fen_open" /\ san = "c4"  -> {"space"}
      [] fen = "fen_open" /\ san = "h3"  ->
            {"check_or_threat", "king_pressure", "material_grab"}
      [] fen = "fen_open" /\ san = "a3"  -> {"space"}
      [] fen = "fen_flat" /\ san = "c4"  -> {"space"}
      [] fen = "fen_sharp" /\ san = "e4" -> {"check_or_threat", "material_grab"}
      [] fen = "fen_sharp" /\ san = "d4" -> {"queen_trade"}
      [] OTHER -> {}

\* tension_after - tension_before of move_increases_tension.
TensionDelta(fen, san) ==
    CASE fen = "fen_open" /\ san = "Nf3" -> 3
      [] fen = "fen_open" /\ san = "Nc3" -> 4
      [] fen = "fen_sharp" /\ san = "e4" -> 5
      [] fen = "fen_sharp" /\ san = "Nf3" -> -2
      [] OTHER -> 0

(***************************************************************************)
(* Engine Adapter (engine.py)                                              *)
(***************************************************************************)
EngineStates == {"ready", "absent", "single_error"}

\* Conditions in which analyze_position has nothing to return: no engine
\* process (line 55), the search raising (lines 100-102), or a search that
\* reports no line with a principal variation (lines 70-71).
SilentEngineStates == {"absent", "analyse_error", "no_pv"}

AllEngineStates == EngineStates \cup SilentEngineStates

RECURSIVE RankLines(_, _)
RankLines(lines, i) ==
    IF lines = <<>> THEN <<>>
    ELSE <<[move_san |-> Head(lines).move_san,
            move_uci |-> Uci(Head(lines).move_san),
            score_cp |-> Head(lines).score_cp,
            rank     |-> i,
            from_history |-> FALSE]>> \o RankLines(Tail(lines), i + 1)

\* EngineWrapper.analyze_position: [] when there is no engine process (or
\* the search raises); else the reported lines, rank = index + 1.
analyze_position(es, fen) ==
    IF es \in SilentEngineStates THEN <<>>
    ELSE RankLines(SubSeq(EngineLines(fen), 1,
                          Min2(MULTIPV, Len(EngineLines(fen)))), 1)

SINGLE_MOVE_PENALTY == -100

\* EngineWrapper.analyze_single_move: the -100 sentinel when there is no
\* engine, the move is not legal, or the search raises / reports no score.
analyze_single_move(es, fen, san) ==
    IF es \in SilentEngineStates THEN [score_cp |-> SINGLE_MOVE_PENALTY]
    ELSE IF san \notin LegalSans(fen) THEN [score_cp |-> SINGLE_MOVE_PENALTY]
    ELSE IF es = "single_error" THEN [score_cp |-> SINGLE_MOVE_PENALTY]
    ELSE [score_cp |-> SingleScore(fen, san)]

(***************************************************************************)
(* Board Heuristics (heuristics.py): style fit and tilt                    *)
(***************************************************************************)
NoAttribution ==
    [aggression_bonus |-> 0, complexity_bonus |-> 0, trade_penalty |-> 0,
     greed_bonus |-> 0, space_bonus |-> 0, tilt_modifier |-> 0]

\* Faulty variant: every marker threshold taken non-strictly.
calculate_style_fit_nonstrict(fen, san, markers) ==
    LET f     == BoardFeatures(fen, san)
        delta == TensionDelta(fen, san)
        aggr  == IF markers.aggression_index >= 750
                 THEN (IF "check_or_threat" \in f THEN 20 ELSE 0)
                    + (IF "king_pressure" \in f THEN 15 ELSE 0)
                 ELSE 0
        trade == IF markers.queen_trade_avoidance >= 800 /\ "queen_trade" \in f
                 THEN -50 ELSE 0
        greed == IF markers.material_greed >= 700 /\ "material_grab" \in f
                 THEN 30 ELSE 0
        cplx  == IF markers.complexity_preference >= 800
                 THEN (IF delta > 0 /\ delta > 2 THEN 25 ELSE 0)
                 ELSE IF markers.complexity_preference <= 300
                 THEN (IF delta > 0 /\ delta > 3 THEN -15 ELSE 0)
                 ELSE 0
        space == IF markers.space_expansion >= 600 /\ "space" \in f
                 THEN 15 ELSE 0
    IN [total |-> aggr + trade + greed + cplx + space,
        attribution |->
            [aggression_bonus |-> aggr, complexity_bonus |-> cplx,
             trade_penalty |-> trade, greed_bonus |-> greed,
             space_bonus |-> space, tilt_modifier |-> 0]]

\* Contributions in hundredths; marker thresholds in tenths of a point.
calculate_style_fit(fen, san, markers) ==
    LET f     == BoardFeatures(fen, san)
        delta == TensionDelta(fen, san)
        aggr  == IF markers.aggression_index > 750
                 THEN (IF "check_or_threat" \in f THEN 20 ELSE 0)
                    + (IF "king_pressure" \in f THEN 15 ELSE 0)
                 ELSE 0
        trade == IF markers.queen_trade_avoidance > 800 /\ "queen_trade" \in f
                 THEN -50 ELSE 0
        greed == IF markers.material_greed > 700 /\ "material_grab" \in f
                 THEN 30 ELSE 0
        cplx  == IF markers.complexity_preference > 800
                 THEN (IF delta > 0 /\ delta > 2 THEN 25 ELSE 0)
                 ELSE IF markers.complexity_preference < 300
                 THEN (IF delta > 0 /\ delta > 3 THEN -15 ELSE 0)
                 ELSE 0
        space == IF markers.space_expansion > 600 /\ "space" \in f
                 THEN 15 ELSE 0
    IN [total |-> aggr + trade + greed + cplx + space,
        attribution |->
            [aggression_bonus |-> aggr, complexity_bonus |-> cplx,
             trade_penalty |-> trade, greed_bonus |-> greed,
             space_bonus |-> space, tilt_modifier |-> 0]]

TILT_THRESHOLD == 10              \* 1.0 pawn, deltas are in tenths

LastThree(s) == SubSeq(s, Max2(1, Len(s) - 2), Len(s))

\* Faulty variant: a drop of exactly the threshold counts.
detect_tilt_nonstrict(recent_eval_deltas) ==
    /\ recent_eval_deltas # <<>>
    /\ \E i \in 1..Len(LastThree(recent_eval_deltas)) :
          LastThree(recent_eval_deltas)[i] <= -TILT_THRESHOLD

detect_tilt(recent_eval_deltas) ==
    /\ recent_eval_deltas # <<>>
    /\ \E i \in 1..Len(LastThree(recent_eval_deltas)) :
          LastThree(recent_eval_deltas)[i] < -TILT_THRESHOLD

apply_tilt_modifiers(markers) ==
    [aggression_index      |-> Min2(1000, markers.aggression_index * 2),
     queen_trade_avoidance |-> markers.queen_trade_avoidance,
     material_greed        |-> Min2(1000, (markers.material_greed * 3) \div 2),
     complexity_preference |-> markers.complexity_preference,
     space_expansion       |-> markers.space_expansion,
     blunder_rate          |-> Min2(1000, markers.blunder_rate * 2),
     time_pressure_weakness |-> markers.time_pressure_weakness]

\* ChessHeuristics.is_forcing_move: a capture, a check or a direct attack
\* on the enemy queen.  Of the abstract positions only fen_sharp has such
\* a move: e4 there captures with check.
is_forcing_move(fen, san) == fen = "fen_sharp" /\ san = "e4"

(***************************************************************************)
(* Trace log and response records                                          *)
(***************************************************************************)
Entry(type, tag, move, value) ==
    [type |-> type, tag |-> tag, move |-> move, value |-> value]

DefaultHabitDetection == NoHabit(0)

DefaultMoveSource ==
    [primary_source |-> "engine", history_contribution |-> 0,
     style_contribution |-> 0, engine_contribution |-> 0]

DefaultTacticalGuardrail ==
    [triggered |-> FALSE, eval_delta |-> 0, is_forcing |-> FALSE]

DEFAULT_DELAY_MS == 1500
HABIT_DELAY_MS == 500

Raised(error) == [status |-> "raised", error |-> error]

(***************************************************************************)
(* History Normalizer and Engine Normalizer                                *)
(***************************************************************************)
\* freq_map[move_san] of _normalize_history: a dict, the last entry of a
\* SAN wins.
RECURSIVE FreqOf(_, _)
FreqOf(history_moves, san) ==
    IF history_moves = <<>> THEN 0
    ELSE LET n == Len(history_moves) IN
         IF history_moves[n].move_san = san
         THEN history_moves[n].frequency
         ELSE FreqOf(SubSeq(history_moves, 1, n - 1), san)

\* Faulty variant: the share taken over the number of listed moves, not of games.
normalize_history_by_count(history_moves, san) ==
    IF history_moves = <<>> THEN <<0, 1>>
    ELSE IF san \in Sans(history_moves) /\ SumFreq(history_moves) > 0
         THEN <<FreqOf(history_moves, san), Len(history_moves)>>
         ELSE <<0, 1>>

\* Each candidate's share as <<f, N>>; <<0, 1>> when the move has no
\* history or N = 0.
normalize_history(history_moves, san) ==
    LET total == SumFreq(history_moves) IN
    IF history_moves = <<>> THEN <<0, 1>>
    ELSE IF san \in Sans(history_moves) /\ total > 0
         THEN <<FreqOf(history_moves, san), total>>
         ELSE <<0, 1>>

\* score_range of _normalize_engine_evals: first entry minus last entry.
score_range(analysis) ==
    LET best_score  == analysis[1].score_cp
        worst_score == analysis[Len(analysis)].score_cp
    IN IF best_score # worst_score THEN best_score - worst_score ELSE 1

\* The normalized score of one entry, as <<score - worst, range>> with the
\* sign moved into the numerator.
normalize_engine_evals(analysis, score) ==
    LET worst_score == analysis[Len(analysis)].score_cp
        r           == score_range(analysis)
    IN IF r > 0 THEN <<score - worst_score, r>>
       ELSE <<worst_score - score, -r>>

(***************************************************************************)
(* Softmax, in fixed point with four decimals                              *)
(***************************************************************************)
FP == 10000
EXP_MINUS_ONE == 3679             \* e^-1 in fixed point
EXP_TERMS == 9
EXP_CUTOFF == 100000              \* e^-10 is below the resolution

FpMul(a, b) == (a * b) \div FP

RECURSIVE FpPow(_, _)
FpPow(a, k) == IF k = 0 THEN FP ELSE FpMul(a, FpPow(a, k - 1))

\* sum_{j >= from} (-y)^j / j!, given term = y^(from-1)/(from-1)!.
RECURSIVE TaylorTail(_, _, _)
TaylorTail(y, term, j) ==
    IF j > EXP_TERMS THEN 0
    ELSE LET t == (term * y) \div (FP * j) IN
         (IF j % 2 = 1 THEN -t ELSE t) + TaylorTail(y, t, j + 1)

\* e^(-x) for x = xu / 10000 >= 0.
ExpNeg(xu) ==
    IF xu >= EXP_CUTOFF THEN 0
    ELSE FpMul(FpPow(EXP_MINUS_ONE, xu \div FP),
               FP + TaylorTail(xu % FP, FP, 1))

RECURSIVE SeqMaxNum(_)
SeqMaxNum(raws) ==
    IF Len(raws) = 1 THEN raws[1]
    ELSE Max2(raws[1], SeqMaxNum(Tail(raws)))

RECURSIVE SeqSum(_)
SeqSum(xs) == IF xs = <<>> THEN 0 ELSE Head(xs) + SeqSum(Tail(xs))

\* _softmax(raw_scores, temperature = 0.5).  The raw scores are
\* raws[i] / (10000 * k); the result is the list of exp weights, whose
\* share of their sum is the probability.
softmax(raws, k) ==
    LET m == SeqMaxNum(raws)
        \* floor(2 * d / k), without forming 2 * d
        Twice(d) == 2 * (d \div k) + (2 * (d % k)) \div k
    IN [i \in 1..Len(raws) |-> ExpNeg(Twice(m - raws[i]))]

(***************************************************************************)
(* predict, up to the engine call (lines 322-357)                          *)
(***************************************************************************)
\* The trace entries written after weights and habit are known.
prepare_trace(w, habit) ==
    << Entry("logic", "phase", w.phase, w.history),
       Entry("logic", "pi", w.weight_mode, w.sample_size) >>
    \o (IF habit.detected
        THEN <<Entry("decision", "HABIT", habit.move, habit.sample_size)>>
        ELSE <<>>)

tilt_trace(tilt) ==
    IF tilt THEN <<Entry("tilt", "TILT DETECTED", None, 0)>> ELSE <<>>

tilted_markers(style_markers, tilt) ==
    IF tilt THEN apply_tilt_modifiers(style_markers) ELSE style_markers

\* Log of the first three engine lines (lines 384-388).
engine_trace(analysis) ==
    [i \in 1..Min2(3, Len(analysis)) |->
        Entry("logic", "engine", analysis[i].move_san, analysis[i].score_cp)]

\* random.choice(seq) driven by one draw v in 0..99 of the stream.
random_choice(seq, v) == seq[((v * Len(seq)) \div 100) + 1]

(***************************************************************************)
(* Engine-unavailable fallback (lines 362-381)                             *)
(***************************************************************************)
\* Faulty variant: the move reported without board.san(move).
fallback_response_unconverted(request, w, trace, tilt, v) ==
    LET san == random_choice(LegalList(request.fen), v) IN
    [status |-> "ok",
     prediction_mode |-> request.mode,
     selected_move |-> Uci(san),
     selected_move_uci |-> Uci(san),
     weights |-> w,
     candidates |-> <<>>,
     trace_log |-> trace,
     tilt_active |-> tilt,
     blunder_applied |-> FALSE,
     habit_detection |-> DefaultHabitDetection,
     move_source |-> DefaultMoveSource,
     suggested_delay_ms |-> DEFAULT_DELAY_MS,
     tactical_guardrail |-> DefaultTacticalGuardrail]

fallback_response(request, w, trace, tilt, v) ==
    LET san == random_choice(LegalList(request.fen), v) IN
    [status |-> "ok",
     prediction_mode |-> request.mode,
     selected_move |-> san,
     selected_move_uci |-> Uci(san),
     weights |-> w,
     candidates |-> <<>>,
     trace_log |-> trace,
     tilt_active |-> tilt,
     blunder_applied |-> FALSE,
     habit_detection |-> DefaultHabitDetection,
     move_source |-> DefaultMoveSource,
     suggested_delay_ms |-> DEFAULT_DELAY_MS,
     tactical_guardrail |-> DefaultTacticalGuardrail]

(***************************************************************************)
(* Pure-history mode (lines 404-491)                                       *)
(***************************************************************************)
\* The first history move, by descending frequency, that parses to a legal
\* move, as a one-element list; the empty list when there is none.
RECURSIVE FirstLegal(_, _)
FirstLegal(fen, sorted) ==
    IF sorted = <<>> THEN <<>>
    ELSE IF ParseSanOk(fen, Head(sorted).move_san) THEN <<Head(sorted)>>
    ELSE FirstLegal(fen, Tail(sorted))

pure_history_pick(fen, history_moves) ==
    FirstLegal(fen, sorted_history(history_moves))

\* history_frequency divides by the sum of frequencies whenever the engine
\* move is in history_map: a ZeroDivisionError when that sum is 0.
pure_history_divides_by_zero(analysis, history_moves) ==
    /\ SumFreq(history_moves) = 0
    /\ \E i \in 1..Len(analysis) : analysis[i].move_san \in Sans(history_moves)

pure_history_candidate(ea, history_moves, selected_move) ==
    [move |-> ea.move_san,
     move_uci |-> ea.move_uci,
     engine_eval |-> ea.score_cp,
     engine_rank |-> ea.rank,
     history_frequency |->
         IF ea.move_san \in Sans(history_moves)
         THEN <<FreqOf(history_moves, ea.move_san), SumFreq(history_moves)>>
         ELSE <<0, 1>>,
     style_fit |-> 0,
     raw_score |-> <<0, 1>>,
     final_prob |-> IF ea.move_san = selected_move THEN <<100, 1>> ELSE <<0, 1>>,
     attribution |-> NoAttribution]

predict_pure_history(fen, analysis, history_moves, w, trace, tilt, habit) ==
    LET pick     == pure_history_pick(fen, history_moves)
        found    == pick # <<>>
        selected == IF found THEN pick[1].move_san ELSE analysis[1].move_san
        uci      == IF found THEN Uci(pick[1].move_san) ELSE analysis[1].move_uci
        decision == IF found
                    THEN Entry("decision", "history", selected, pick[1].frequency)
                    ELSE Entry("decision", "engine_fallback", selected, 0)
    IN IF pure_history_divides_by_zero(analysis, history_moves)
       THEN Raised("ZeroDivisionError")
       ELSE
       [status |-> "ok",
        prediction_mode |-> "pure_history",
        selected_move |-> selected,
        selected_move_uci |-> uci,
        weights |-> w,
        candidates |-> [i \in 1..Len(analysis) |->
            pure_history_candidate(analysis[i], history_moves, selected)],
        trace_log |-> Append(trace, decision),
        tilt_active |-> tilt,
        blunder_applied |-> FALSE,
        habit_detection |-> habit,
        move_source |->
            [primary_source |-> IF history_moves # <<>> THEN "history" ELSE "engine",
             history_contribution |-> IF history_moves # <<>> THEN 100 ELSE 0,
             style_contribution |-> 0,
             engine_contribution |-> IF history_moves # <<>> THEN 0 ELSE 100],
        suggested_delay_ms |->
            IF habit.detected /\ habit.move = selected
            THEN HABIT_DELAY_MS ELSE DEFAULT_DELAY_MS,
        tactical_guardrail |-> DefaultTacticalGuardrail]

(***************************************************************************)
(* Hybrid mode: Candidate Assembler (lines 507-544)                        *)
(***************************************************************************)
SIGNIFICANT_SHARE_PCT == 10
SIGNIFICANT_GAMES == 5

\* Faulty variant: both significance thresholds taken strictly.
is_significant_strict(hm, total) ==
    \/ (total > 0 /\ 100 * hm.frequency > SIGNIFICANT_SHARE_PCT * total)
    \/ hm.frequency > SIGNIFICANT_GAMES

\* freq_pct >= 10 or hm.frequency >= 5, with freq_pct = f / N * 100 (0 when
\* N = 0).
is_significant(hm, total) ==
    \/ (total > 0 /\ 100 * hm.frequency >= SIGNIFICANT_SHARE_PCT * total)
    \/ hm.frequency >= SIGNIFICANT_GAMES

InitialAssembly(analysis) ==
    [candidate_sans |-> [i \in 1..Len(analysis) |-> analysis[i].move_san],
     history_additions |-> <<>>,
     trace |-> <<>>,
     calls |-> <<>>]

\* One iteration of the loop over history_moves.
history_step(acc, hm, fen, es, analysis, total) ==
    IF /\ hm.move_san \notin Range(acc.candidate_sans)
       /\ is_significant(hm, total)
       /\ ParseSanOk(fen, hm.move_san)
    THEN LET eval_info == analyze_single_move(es, fen, hm.move_san) IN
         [candidate_sans |-> Append(acc.candidate_sans, hm.move_san),
          history_additions |-> Append(acc.history_additions,
              [move_san |-> hm.move_san,
               move_uci |-> Uci(hm.move_san),
               score_cp |-> eval_info.score_cp,
               rank     |-> Len(analysis) + Len(acc.history_additions) + 1,
               from_history |-> TRUE]),
          trace |-> Append(acc.trace,
              Entry("logic", "history_added", hm.move_san, hm.frequency)),
          calls |-> Append(acc.calls, <<"analyze_single_move", Uci(hm.move_san)>>)]
    ELSE acc

RECURSIVE assemble_from(_, _, _, _, _, _)
assemble_from(acc, rest, fen, es, analysis, total) ==
    IF rest = <<>> THEN acc
    ELSE assemble_from(history_step(acc, Head(rest), fen, es, analysis, total),
                       Tail(rest), fen, es, analysis, total)

assemble_candidates(fen, es, analysis, history_moves) ==
    assemble_from(InitialAssembly(analysis), history_moves, fen, es, analysis,
                  SumFreq(history_moves))

(***************************************************************************)
(* Hybrid mode: Fusion Core (lines 546-691)                                *)
(***************************************************************************)
\* Denominator shared by the history shares of one request.
history_den(history_moves) ==
    IF history_moves # <<>> /\ SumFreq(history_moves) > 0
    THEN SumFreq(history_moves) ELSE 1

\* raw = alpha*H + beta*E + gamma*S over the common denominator
\* 10000 * history_den * |score_range|; this is its numerator.
raw_score_num(w, h, e, s, hden) ==
    w.history * h[1] * (hden \div h[2]) * 100 * e[2]
  + w.engine * e[1] * 100 * hden
  + w.style * s * hden * e[2]

\* The warning / logic entries of the style pass, for an engine move.
style_trace(ea, attribution) ==
    IF ea.from_history THEN <<>>
    ELSE (IF attribution.trade_penalty < 0
          THEN <<Entry("warning", "trade_penalty", ea.move_san,
                       -attribution.trade_penalty)>>
          ELSE <<>>)
      \o (IF attribution.aggression_bonus > 0
          THEN <<Entry("logic", "aggression", ea.move_san,
                       attribution.aggression_bonus)>>
          ELSE <<>>)

RECURSIVE style_pass_trace(_, _, _)
style_pass_trace(extended, fen, markers) ==
    IF extended = <<>> THEN <<>>
    ELSE style_trace(Head(extended),
             calculate_style_fit(fen, Head(extended).move_san, markers).attribution)
         \o style_pass_trace(Tail(extended), fen, markers)

\* Python list.sort(key=final_prob, reverse=True): stable, descending.
RECURSIVE InsertByProb(_, _)
InsertByProb(c, sorted) ==
    IF sorted = <<>> THEN <<c>>
    ELSE IF c.final_prob[1] >= Head(sorted).final_prob[1]
         THEN <<c>> \o sorted
         ELSE <<Head(sorted)>> \o InsertByProb(c, Tail(sorted))

RECURSIVE sort_by_prob(_)
sort_by_prob(cs) ==
    IF cs = <<>> THEN <<>>
    ELSE InsertByProb(Head(cs), sort_by_prob(Tail(cs)))

BLUNDER_MIN_CANDIDATES == 4

\* Faulty variant: the blunder chance not scaled by the board tension.
select_blunder_move_any_tension(n_candidates, blunder_rate, tension, u, v) ==
    IF u * 100 < blunder_rate * 10
       /\ n_candidates >= BLUNDER_MIN_CANDIDATES
    THEN random_choice(<<3, 4>>, v)
    ELSE 0

\* _select_blunder_move: 0 for None, else the 1-based index picked.  u is
\* the random() draw in hundredths, v the draw that feeds random.choice.
select_blunder_move(n_candidates, blunder_rate, tension, u, v) ==
    IF u * 100 < blunder_rate * Min2(10, tension)
       /\ n_candidates >= BLUNDER_MIN_CANDIDATES
    THEN random_choice(<<3, 4>>, v)
    ELSE 0

\* CDF inversion: the first index whose cumulative final_prob reaches
\* r = v percent; index 1 when none does.
RECURSIVE cdf_select(_, _, _, _)
cdf_select(cands, i, cumulative, v) ==
    IF i > Len(cands) THEN 1
    ELSE IF v * cands[i].final_prob[2] <= cumulative + cands[i].final_prob[1]
         THEN i
         ELSE cdf_select(cands, i + 1, cumulative + cands[i].final_prob[1], v)

hybrid_move_source(w) ==
    [primary_source |->
        IF w.history >= Max2(w.style, w.engine) THEN "history"
        ELSE IF w.style >= w.engine THEN "style" ELSE "engine",
     \* weight * 100: a weight in hundredths is already that percentage
     history_contribution |-> w.history,
     style_contribution |-> w.style,
     engine_contribution |-> w.engine]


\* The candidate table before sorting: one CandidateMove per entry of the
\* extended analysis, final_prob = <<100 * weight, sum of weights>>.
hybrid_candidates(fen, extended, history_moves, markers, w) ==
    LET hden == history_den(history_moves)
        eden == Abs(score_range(extended))
        H(i) == normalize_history(history_moves, extended[i].move_san)
        E(i) == normalize_engine_evals(extended, extended[i].score_cp)
        S(i) == calculate_style_fit(fen, extended[i].move_san, markers)
        raws == [i \in 1..Len(extended) |->
                    raw_score_num(w, H(i), E(i), S(i).total, hden)]
        ws   == softmax(raws, hden * eden)
        wsum == SeqSum(ws)
    IN [i \in 1..Len(extended) |->
          [move |-> extended[i].move_san,
           move_uci |-> extended[i].move_uci,
           engine_eval |-> extended[i].score_cp,
           engine_rank |-> extended[i].rank,
           history_frequency |-> H(i),
           style_fit |-> S(i).total,
           raw_score |-> <<raws[i], 10000 * hden * eden>>,
           final_prob |-> <<100 * ws[i], wsum>>,
           attribution |-> S(i).attribution]]

\* _predict_hybrid after the history loop; trace is the log so far.
hybrid_response(fen, analysis, additions, history_moves, markers, w, trace, tilt, habit, u, v) ==
    LET extended == analysis \o additions
        final_candidates ==
            sort_by_prob(hybrid_candidates(fen, extended, history_moves, markers, w))
        tension == Tension(fen)
        blunder_idx == select_blunder_move(Len(final_candidates),
                                           markers.blunder_rate, tension, u, v)
        selected_idx == IF blunder_idx # 0 THEN blunder_idx
                        ELSE cdf_select(final_candidates, 1, 0, v)
        selected == final_candidates[selected_idx]
    IN [status |-> "ok",
        prediction_mode |-> "hybrid",
        selected_move |-> selected.move,
        selected_move_uci |-> selected.move_uci,
        weights |-> w,
        candidates |-> final_candidates,
        trace_log |-> trace
            \o style_pass_trace(extended, fen, markers)
            \o (IF blunder_idx # 0
                THEN <<Entry("warning", "BLUNDER SIMULATION", None, blunder_idx)>>
                ELSE <<>>)
            \o <<Entry("decision", "selected", selected.move, 0)>>,
        tilt_active |-> tilt,
        blunder_applied |-> blunder_idx # 0,
        habit_detection |-> habit,
        move_source |-> hybrid_move_source(w),
        suggested_delay_ms |->
            IF habit.detected /\ habit.move = selected.move
            THEN HABIT_DELAY_MS ELSE DEFAULT_DELAY_MS,
        tactical_guardrail |-> DefaultTacticalGuardrail]

(***************************************************************************)
(* predict as one function of the request, the engine's condition and the  *)
(* random stream (draws[1], draws[2], ...)                                 *)
(***************************************************************************)
predict(request, es, draws) ==
    IF ~FenParses(request.fen) THEN Raised("ValueError")
    ELSE
    LET w        == get_dynamic_weights(request.move_number, request.history_moves,
                                        request.is_opponent_turn)
        habit    == detect_habit(request.history_moves)
        tilt     == detect_tilt(request.recent_eval_deltas)
        markers  == tilted_markers(request.style_markers, tilt)
        trace0   == prepare_trace(w, habit) \o tilt_trace(tilt)
        analysis == analyze_position(es, request.fen)
    IN IF analysis = <<>>
       THEN IF LegalList(request.fen) # <<>>
            THEN fallback_response(request, w,
                     Append(trace0, Entry("warning", "engine_unavailable", None, 0)),
                     tilt, draws[1])
            ELSE Raised("ValueError")
       ELSE IF request.mode = "pure_history"
       THEN predict_pure_history(request.fen, analysis, request.history_moves, w,
                                 trace0 \o engine_trace(analysis), tilt, habit)
       ELSE LET acc == assemble_candidates(request.fen, es, analysis,
                                           request.history_moves)
            IN hybrid_response(request.fen, analysis, acc.history_additions,
                               request.history_moves, markers, w,
                               trace0 \o engine_trace(analysis) \o acc.trace,
                               tilt, habit, draws[1], draws[2])

(***************************************************************************)
(* Inputs                                                                  *)
(***************************************************************************)
HM(san, f) == [move_san |-> san, frequency |-> f]

\* All orderings of a list.
Perms(seq) ==
    LET n == Len(seq) IN
    { [i \in 1..n |-> seq[p[i]]] :
        p \in {q \in [1..n -> 1..n] : \A i, j \in 1..n : i # j => q[i] # q[j]} }

\* History tables (HistoryMove lists without duplicate SANs); a request
\* may carry any of them in any order.
HistoryTables ==
    { <<>>,
      <<HM("h3", 3)>>,
      <<HM("h3", 0)>>,
      <<HM("d4", 0), HM("h3", 0)>>,
      <<HM("e4", 2), HM("d4", 2)>>,
      <<HM("d4", 9), HM("h3", 1)>>,
      <<HM("h3", 19), HM("d4", 1)>>,
      <<HM("h3", 5), HM("a3", 5)>>,
      <<HM("d4", 55), HM("h3", 5)>>,
      <<HM("d4", 4), HM("h3", 4), HM("a3", 4)>> }

Histories == UNION {Perms(t) : t \in HistoryTables}

NeutralMarkers ==
    [aggression_index |-> 500, queen_trade_avoidance |-> 500,
     material_greed |-> 500, complexity_preference |-> 500,
     space_expansion |-> 500, blunder_rate |-> 50,
     time_pressure_weakness |-> 500]

SpikyMarkers ==
    [aggression_index |-> 400, queen_trade_avoidance |-> 900,
     material_greed |-> 500, complexity_preference |-> 860,
     space_expansion |-> 640, blunder_rate |-> 500,
     time_pressure_weakness |-> 500]

AggressiveMarkers ==
    [aggression_index |-> 800, queen_trade_avoidance |-> 500,
     material_greed |-> 800, complexity_preference |-> 200,
     space_expansion |-> 500, blunder_rate |-> 0,
     time_pressure_weakness |-> 500]

RequestMarkers == {NeutralMarkers, SpikyMarkers}
MarkerProfiles == {NeutralMarkers, SpikyMarkers, AggressiveMarkers}

\* recent_eval_deltas, in tenths of a pawn.
EvalDeltas == { <<>>, <<-3, -12, -1>> }

MoveNumbers == {12, 13, 36}
Modes == {"pure_history", "hybrid"}
PlayableFens == {"fen_open", "fen_flat", "fen_sharp"}

\* Values of one draw of the random stream, in hundredths of [0, 1).
DrawValues == {0, 50, 99}

Request(fen, mode, opp, markers, history, deltas, move_number) ==
    [fen |-> fen, mode |-> mode, is_opponent_turn |-> opp,
     style_markers |-> markers, history_moves |-> history,
     recent_eval_deltas |-> deltas, move_number |-> move_number]

Requests ==
    { Request(fen, mode, opp, markers, history, deltas, n) :
        fen \in PlayableFens, mode \in Modes, opp \in BOOLEAN,
        markers \in RequestMarkers, history \in Histories,
        deltas \in EvalDeltas, n \in MoveNumbers }
    \cup
    { Request(fen, mode, TRUE, NeutralMarkers, history, <<>>, 12) :
        fen \in Positions \ PlayableFens, mode \in Modes,
        history \in {<<>>, <<HM("d4", 9), HM("h3", 1)>>} }

(***************************************************************************)
(* The state machine: one request through ScoutPredictor.predict           *)
(***************************************************************************)
Init ==
    /\ req \in Requests
    /\ engine_state \in EngineStates
    /\ pc = "start"
    /\ weights = None
    /\ habit_detection = None
    /\ tilt_active = FALSE
    /\ working_markers = None
    /\ engine_analysis = <<>>
    /\ candidate_sans = <<>>
    /\ history_additions = <<>>
    /\ hist_i = 1
    /\ trace_log = <<>>
    /\ call_log = <<>>
    /\ rng = <<>>
    /\ response = None
    /\ http_request = None
    /\ http_response = None
    /\ tasks = <<>>
    /\ in_flight = {}

\* board = chess.Board(fen), line 323.
ParseFen ==
    /\ pc = "start"
    /\ IF FenParses(req.fen)
       THEN pc' = "select_weights" /\ response' = response
       ELSE pc' = "raised" /\ response' = Raised("ValueError")
    /\ UNCHANGED <<req, engine_state, weights, habit_detection, tilt_active,
                   working_markers, engine_analysis, candidate_sans,
                   history_additions, hist_i, trace_log, call_log, rng>>
    /\ UNCHANGED server_vars

\* Line 326.
SelectWeights ==
    /\ pc = "select_weights"
    /\ weights' = get_dynamic_weights(req.move_number, req.history_moves,
                                      req.is_opponent_turn)
    /\ pc' = "detect_habit"
    /\ UNCHANGED <<req, engine_state, habit_detection, tilt_active,
                   working_markers, engine_analysis, candidate_sans,
                   history_additions, hist_i, trace_log, call_log, rng, response>>
    /\ UNCHANGED server_vars

\* Lines 329-344.
DetectHabit ==
    /\ pc = "detect_habit"
    /\ habit_detection' = detect_habit(req.history_moves)
    /\ trace_log' = trace_log \o prepare_trace(weights, habit_detection')
    /\ pc' = "detect_tilt"
    /\ UNCHANGED <<req, engine_state, weights, tilt_active, working_markers,
                   engine_analysis, candidate_sans, history_additions, hist_i,
                   call_log, rng, response>>
    /\ UNCHANGED server_vars

\* Lines 347-357.
DetectTilt ==
    /\ pc = "detect_tilt"
    /\ tilt_active' = detect_tilt(req.recent_eval_deltas)
    /\ working_markers' = tilted_markers(req.style_markers, tilt_active')
    /\ trace_log' = trace_log \o tilt_trace(tilt_active')
    /\ pc' = "analyze"
    /\ UNCHANGED <<req, engine_state, weights, habit_detection, engine_analysis,
                   candidate_sans, history_additions, hist_i, call_log, rng,
                   response>>
    /\ UNCHANGED server_vars

\* Lines 360-402: the Multi-PV call and the dispatch on its result.
AnalyzePosition ==
    /\ pc = "analyze"
    /\ engine_analysis' = analyze_position(engine_state, req.fen)
    /\ call_log' = Append(call_log, <<"analyze_position", req.fen>>)
    /\ IF engine_analysis' = <<>>
       THEN /\ trace_log' = Append(trace_log,
                                Entry("warning", "engine_unavailable", None, 0))
            /\ pc' = "fallback"
            /\ candidate_sans' = candidate_sans
       ELSE /\ trace_log' = trace_log \o engine_trace(engine_analysis')
            /\ pc' = IF req.mode = "pure_history" THEN "pure_history" ELSE "assemble"
            /\ candidate_sans' = InitialAssembly(engine_analysis').candidate_sans
    /\ UNCHANGED <<req, engine_state, weights, habit_detection, tilt_active,
                   working_markers, history_additions, hist_i, rng, response>>
    /\ UNCHANGED server_vars

\* Lines 368-380: a random legal move.
FallbackRandomMove ==
    /\ pc = "fallback"
    /\ LegalList(req.fen) # <<>>
    /\ \E v \in DrawValues :
          /\ rng' = Append(rng, v)
          /\ response' = fallback_response(req, weights, trace_log, tilt_active, v)
    /\ pc' = "done"
    /\ UNCHANGED <<req, engine_state, weights, habit_detection, tilt_active,
                   working_markers, engine_analysis, candidate_sans,
                   history_additions, hist_i, trace_log, call_log>>
    /\ UNCHANGED server_vars

\* Line 381.
FallbackNoLegalMoves ==
    /\ pc = "fallback"
    /\ LegalList(req.fen) = <<>>
    /\ response' = Raised("ValueError")
    /\ pc' = "raised"
    /\ UNCHANGED <<req, engine_state, weights, habit_detection, tilt_active,
                   working_markers, engine_analysis, candidate_sans,
                   history_additions, hist_i, trace_log, call_log, rng>>
    /\ UNCHANGED server_vars

\* _predict_pure_history.
PredictPureHistory ==
    /\ pc = "pure_history"
    /\ response' = predict_pure_history(req.fen, engine_analysis, req.history_moves,
                                        weights, trace_log, tilt_active,
                                        habit_detection)
    /\ pc' = IF response'.status = "ok" THEN "done" ELSE "raised"
    /\ trace_log' = IF response'.status = "ok" THEN response'.trace_log
                    ELSE trace_log
    /\ UNCHANGED <<req, engine_state, weights, habit_detection, tilt_active,
                   working_markers, engine_analysis, candidate_sans,
                   history_additions, hist_i, call_log, rng>>
    /\ UNCHANGED server_vars

\* _predict_hybrid, one iteration of the loop over history_moves
\* (lines 517-541), with its analyze_single_move call.
AssembleStep ==
    /\ pc = "assemble"
    /\ hist_i <= Len(req.history_moves)
    /\ LET acc == history_step(
                     [candidate_sans |-> candidate_sans,
                      history_additions |-> history_additions,
                      trace |-> trace_log, calls |-> call_log],
                     req.history_moves[hist_i], req.fen, engine_state,
                     engine_analysis, SumFreq(req.history_moves))
       IN /\ candidate_sans' = acc.candidate_sans
          /\ history_additions' = acc.history_additions
          /\ trace_log' = acc.trace
          /\ call_log' = acc.calls
    /\ hist_i' = hist_i + 1
    /\ UNCHANGED <<req, engine_state, pc, weights, habit_detection, tilt_active,
                   working_markers, engine_analysis, rng, response>>
    /\ UNCHANGED server_vars

\* Faulty variant: the selection draw taken from a generator of its own,
\* outside the seeded stream.
FuseOwnGenerator ==
    /\ pc = "assemble"
    /\ hist_i > Len(req.history_moves)
    /\ \E u \in DrawValues, v \in DrawValues, other \in DrawValues :
          /\ rng' = rng \o <<u, v>>
          /\ response' = hybrid_response(req.fen, engine_analysis,
                             history_additions, req.history_moves,
                             working_markers, weights, trace_log, tilt_active,
                             habit_detection, u, other)
    /\ trace_log' = response'.trace_log
    /\ pc' = "done"
    /\ UNCHANGED <<req, engine_state, weights, habit_detection, tilt_active,
                   working_markers, engine_analysis, candidate_sans,
                   history_additions, hist_i, call_log>>
    /\ UNCHANGED server_vars

\* Faulty variant: the request's own markers passed on to fusion when tilt
\* is active.
FuseUntilted ==
    /\ pc = "assemble"
    /\ hist_i > Len(req.history_moves)
    /\ \E u \in DrawValues, v \in DrawValues :
          /\ rng' = rng \o <<u, v>>
          /\ response' = hybrid_response(req.fen, engine_analysis,
                             history_additions, req.history_moves,
                             req.style_markers, weights, trace_log, tilt_active,
                             habit_detection, u, v)
    /\ trace_log' = response'.trace_log
    /\ pc' = "done"
    /\ UNCHANGED <<req, engine_state, weights, habit_detection, tilt_active,
                   working_markers, engine_analysis, candidate_sans,
                   history_additions, hist_i, call_log>>
    /\ UNCHANGED server_vars

\* Faulty variant: fusion entered from inside the history loop, before its
\* last iteration (and that iteration's engine call).
FuseInsideLoop ==
    /\ pc = "assemble"
    /\ hist_i >= Len(req.history_moves)
    /\ \E u \in DrawValues, v \in DrawValues :
          /\ rng' = rng \o <<u, v>>
          /\ response' = hybrid_response(req.fen, engine_analysis,
                             history_additions, req.history_moves,
                             working_markers, weights, trace_log, tilt_active,
                             habit_detection, u, v)
    /\ trace_log' = response'.trace_log
    /\ pc' = "done"
    /\ UNCHANGED <<req, engine_state, weights, habit_detection, tilt_active,
                   working_markers, engine_analysis, candidate_sans,
                   history_additions, hist_i, call_log>>
    /\ UNCHANGED server_vars

\* _predict_hybrid from line 543 on: fusion, softmax, selection.
Fuse ==
    /\ pc = "assemble"
    /\ hist_i > Len(req.history_moves)
    /\ \E u \in DrawValues, v \in DrawValues :
          /\ rng' = rng \o <<u, v>>
          /\ response' = hybrid_response(req.fen, engine_analysis,
                             history_additions, req.history_moves,
                             working_markers, weights, trace_log, tilt_active,
                             habit_detection, u, v)
    /\ trace_log' = response'.trace_log
    /\ pc' = "done"
    /\ UNCHANGED <<req, engine_state, weights, habit_detection, tilt_active,
                   working_markers, engine_analysis, candidate_sans,
                   history_additions, hist_i, call_log>>
    /\ UNCHANGED server_vars

Next ==
    \/ ParseFen
    \/ SelectWeights
    \/ DetectHabit
    \/ DetectTilt
    \/ AnalyzePosition
    \/ FallbackRandomMove
    \/ FallbackNoLegalMoves
    \/ PredictPureHistory
    \/ AssembleStep
    \/ Fuse

Spec == Init /\ [][Next]_vars

\* The step-by-step run computes what predict computes.
StepwiseAgrees ==
    pc \in {"done", "raised"} => response = predict(req, engine_state, rng)

(***************************************************************************)
(* The Weight Selector and Habit Detector on their own, over frequency     *)
(* lists that reach the thresholds exactly                                 *)
(***************************************************************************)
MaxFreq == 6
MaxProfileLen == 2

ProfileSans == <<"e4", "d4", "Nf3", "c4", "Nc3", "h3", "a3", "b3", "g3">>

Profile(fs) == [i \in 1..Len(fs) |-> HM(ProfileSans[i], fs[i])]

FrequencyLists ==
    UNION {[1..n -> 0..MaxFreq] : n \in 0..MaxProfileLen}
    \cup { <<95, 3, 2>>,                       \* pi = 0.9038
           <<20, 20, 20, 20, 20>>,             \* pi = 0.20
           <<6, 1, 1, 1, 1>>,                  \* pi = 0.40 exactly, N = 10
           <<12, 2, 2, 2, 2>>,                 \* pi = 0.40 exactly, N = 20
           <<129, 3, 2, 1, 1, 1, 1, 1, 1>>,    \* pi = 0.85 exactly, N = 140
           <<13, 1>>,                          \* pi just above 0.85
           <<3, 1, 1, 1, 1, 1>>,               \* pi just below 0.40
           <<17, 2>>,                          \* top share just below 90%
           <<9, 1>>, <<10>>, <<0, 0, 0>> }

WeightMoveNumbers == {1, 12, 13, 35, 36}

WeightRequests ==
    { Request("fen_open", "hybrid", opp, NeutralMarkers, Profile(fs), <<>>, n) :
        opp \in BOOLEAN, fs \in FrequencyLists, n \in WeightMoveNumbers }

InitWeights ==
    /\ req \in WeightRequests
    /\ engine_state = "ready"
    /\ pc = "start"
    /\ weights = None
    /\ habit_detection = None
    /\ tilt_active = FALSE
    /\ working_markers = None
    /\ engine_analysis = <<>>
    /\ candidate_sans = <<>>
    /\ history_additions = <<>>
    /\ hist_i = 1
    /\ trace_log = <<>>
    /\ call_log = <<>>
    /\ rng = <<>>
    /\ response = None
    /\ http_request = None
    /\ http_response = None
    /\ tasks = <<>>
    /\ in_flight = {}

NextWeights == ParseFen \/ SelectWeights \/ DetectHabit

SpecWeights == InitWeights /\ [][NextWeights]_vars

WeightsChosen == pc \notin {"start", "select_weights", "raised"}

Responded == pc = "done" /\ response.status = "ok"

(***************************************************************************)
(* Properties                                                              *)
(***************************************************************************)
\* The request's N and sum of squared frequencies, from the request alone.
ReqN == SeqSum([i \in 1..Len(req.history_moves) |-> req.history_moves[i].frequency])
ReqSquares ==
    SeqSum([i \in 1..Len(req.history_moves) |->
               req.history_moves[i].frequency * req.history_moves[i].frequency])
ReqPhase ==
    IF req.move_number <= 12 THEN "opening"
    ELSE IF req.move_number <= 35 THEN "middlegame" ELSE "endgame"

C1_ExpectedMode ==
    IF ~req.is_opponent_turn THEN "non_opponent_turn"
    ELSE IF ReqN < 5 THEN "low_sample"
    ELSE IF 100 * ReqSquares > 85 * ReqN * ReqN THEN "habit"
    ELSE IF 100 * ReqSquares < 40 * ReqN * ReqN THEN "chameleon"
    ELSE "phase"

C1_ExpectedRow ==
    CASE C1_ExpectedMode = "non_opponent_turn" ->
            IF ReqPhase = "opening" THEN <<80, 20, 0>> ELSE <<30, 70, 0>>
      [] C1_ExpectedMode = "low_sample" -> <<0, 30, 70>>
      [] C1_ExpectedMode = "habit"      -> <<90, 5, 5>>
      [] C1_ExpectedMode = "chameleon"  -> <<20, 20, 60>>
      [] OTHER ->
            CASE ReqPhase = "opening"    -> <<70, 10, 20>>
              [] ReqPhase = "middlegame" -> <<10, 40, 50>>
              [] OTHER                   -> <<5, 80, 15>>

\* C1: _get_dynamic_weights picks the regime by the first matching rule
\* (not is_opponent_turn, N < 5, pi > 0.85, pi < 0.40, else phase) and
\* returns that regime's (alpha, beta, gamma) row; with N >= 5 on the
\* opponent's turn, pi exactly 0.85 and pi exactly 0.40 both give phase.
C1_RegimeByFirstMatch ==
    WeightsChosen =>
        /\ weights.weight_mode = C1_ExpectedMode
        /\ <<weights.history, weights.engine, weights.style>> = C1_ExpectedRow
        /\ ( /\ req.is_opponent_turn
             /\ ReqN >= 5
             /\ \/ 100 * ReqSquares = 85 * ReqN * ReqN
                \/ 100 * ReqSquares = 40 * ReqN * ReqN )
           => weights.weight_mode = "phase"

C1_Witness ==
    /\ WeightsChosen
    /\ req.is_opponent_turn
    /\ ReqN >= 5
    /\ 100 * ReqSquares = 85 * ReqN * ReqN
    /\ weights.weight_mode = "phase"

\* C2: in every PredictionResponse, whatever the regime, the phase and the
\* path (pure_history, hybrid, engine-unavailable fallback),
\* weights.history + weights.engine + weights.style = 1.
C2_WeightsSumToOne ==
    Responded =>
        response.weights.history + response.weights.engine
            + response.weights.style = 100

C2_Witness ==
    /\ Responded
    /\ response.candidates = <<>>
    /\ response.prediction_mode = "pure_history"
    /\ response.weights.weight_mode = "phase"
    /\ response.weights.phase = "endgame"

\* C3: for a history list with non-negative frequencies the Predictability
\* Index satisfies 0 <= pi <= 1, pi = 0 when N = 0, and pi = 1 exactly when
\* one move carries all of the frequency N > 0.
C3_PiRange ==
    (WeightsChosen /\ req.is_opponent_turn) =>
        LET pi == weights.predictability_index
            carriers == {i \in 1..Len(req.history_moves) :
                            req.history_moves[i].frequency > 0}
        IN /\ pi[2] > 0
           /\ 0 <= pi[1]
           /\ pi[1] <= pi[2]
           /\ (ReqN = 0 => pi[1] = 0)
           /\ (pi[1] = pi[2] <=> Cardinality(carriers) = 1)
           /\ weights.sample_size = ReqN

C3_Witness ==
    /\ WeightsChosen
    /\ req.is_opponent_turn
    /\ Len(req.history_moves) = 2
    /\ weights.predictability_index[1] = weights.predictability_index[2]
    /\ ReqN = MaxFreq


CandidateMoves(r) == {r.candidates[i].move : i \in 1..Len(r.candidates)}

WithHistory(r, h) == [r EXCEPT !.history_moves = h]

\* C4: on a non-terminal position where the engine returned at least one
\* analysis, in either mode, selected_move is the SAN of some entry of the
\* candidates list.
C4_SelectedIsCandidate ==
    (Responded /\ engine_analysis # <<>>) =>
        response.selected_move \in CandidateMoves(response)

ListedLegal ==
    {i \in 1..Len(req.history_moves) :
        req.history_moves[i].move_san \in LegalSans(req.fen)}

\* C5: in pure_history mode with a working engine, when history_moves is
\* non-empty and some listed move is legal, exactly one candidate has
\* final_prob = 100 (the selected move) and every other candidate has 0.
C5_OneCandidateAtHundred ==
    ( /\ Responded
      /\ response.prediction_mode = "pure_history"
      /\ engine_analysis # <<>>
      /\ ListedLegal # {} ) =>
        LET full == {i \in 1..Len(response.candidates) :
                        response.candidates[i].final_prob = <<100, 1>>}
        IN /\ Cardinality(full) = 1
           /\ \A i \in 1..Len(response.candidates) :
                 IF i \in full
                 THEN response.candidates[i].move = response.selected_move
                 ELSE response.candidates[i].final_prob = <<0, 1>>

\* C6: in pure_history mode with a working engine, selected_move is a legal
\* history move of highest frequency among the legal ones (illegal SANs are
\* skipped); only when no history move is legal is it the engine's rank-1
\* move.
C6_PureHistoryPick ==
    ( /\ Responded
      /\ response.prediction_mode = "pure_history"
      /\ engine_analysis # <<>> ) =>
        IF ListedLegal # {}
        THEN \E i \in ListedLegal :
                /\ response.selected_move = req.history_moves[i].move_san
                /\ \A j \in ListedLegal :
                      req.history_moves[j].frequency
                          <= req.history_moves[i].frequency
        ELSE /\ response.selected_move = engine_analysis[1].move_san
             /\ engine_analysis[1].rank = 1

C6_Witness ==
    /\ Responded
    /\ response.prediction_mode = "pure_history"
    /\ engine_analysis # <<>>
    /\ \E i \in ListedLegal :
          /\ response.selected_move = req.history_moves[i].move_san
          /\ \E j \in 1..Len(req.history_moves) :
                /\ j \notin ListedLegal
                /\ req.history_moves[j].frequency
                       > req.history_moves[i].frequency

\* What a response says about each candidate, regardless of list order.
CandidateTable(r) ==
    { [move |-> r.candidates[i].move,
       history_frequency |-> r.candidates[i].history_frequency,
       raw_score |-> r.candidates[i].raw_score,
       final_prob |-> r.candidates[i].final_prob] :
         i \in 1..Len(r.candidates) }

\* C7: any permutation of history_moves yields the same response: same
\* weights, habit detection, candidate set (same H, raw_score and
\* final_prob per move) and, for the same random draws, the same selected
\* move, in both modes.
C7_PermutationInvariant ==
    Responded =>
        \A h \in Perms(req.history_moves) :
            LET r == predict(WithHistory(req, h), engine_state, rng) IN
            /\ r.status = "ok"
            /\ r.weights = response.weights
            /\ r.habit_detection = response.habit_detection
            /\ CandidateTable(r) = CandidateTable(response)
            /\ r.selected_move = response.selected_move

\* Largest factor by which the frequencies of a request are scaled.
MaxScale == 2

Scaled(history_moves, k) ==
    [i \in 1..Len(history_moves) |->
        HM(history_moves[i].move_san, k * history_moves[i].frequency)]

\* Equality of two rationals <<num, den>> with positive denominators.
RatEq(a, b) == a[1] * b[2] = b[1] * a[2]

\* Every move listed by both responses carries the same history share.
SameShares(r1, r2) ==
    \A i \in 1..Len(r1.candidates) : \A j \in 1..Len(r2.candidates) :
        r1.candidates[i].move = r2.candidates[j].move =>
            RatEq(r1.candidates[i].history_frequency,
                  r2.candidates[j].history_frequency)

\* C8 (as written): multiplying every frequency by the same k >= 1 leaves
\* PI, every candidate's history share H and hence the selected move
\* unchanged, the tests N < 5, N >= 10 and frequency >= 5 notwithstanding.
C8_ScaleInvariant ==
    Responded =>
        \A k \in 1..MaxScale :
            LET r == predict(WithHistory(req, Scaled(req.history_moves, k)),
                             engine_state, rng) IN
            /\ r.status = "ok"
            /\ RatEq(r.weights.predictability_index,
                     response.weights.predictability_index)
            /\ CandidateMoves(r) = CandidateMoves(response)
            /\ SameShares(r, response)
            /\ r.selected_move = response.selected_move

\* C8 (amended): scaling leaves PI and the history share of every move
\* listed before and after unchanged; the selected move is unchanged in
\* pure_history mode, and in hybrid mode whenever the scaled request gets
\* the same weight regime and the same candidate moves.
C8_ScaleInvariantAmended ==
    Responded =>
        \A k \in 1..MaxScale :
            LET r == predict(WithHistory(req, Scaled(req.history_moves, k)),
                             engine_state, rng) IN
            /\ r.status = "ok"
            /\ RatEq(r.weights.predictability_index,
                     response.weights.predictability_index)
            /\ SameShares(r, response)
            /\ ( \/ response.prediction_mode = "pure_history"
                 \/ /\ r.weights.weight_mode = response.weights.weight_mode
                    /\ CandidateMoves(r) = CandidateMoves(response) )
                   => r.selected_move = response.selected_move

C8_Witness ==
    /\ Responded
    /\ response.prediction_mode = "hybrid"
    /\ history_additions # <<>>
    /\ LET r == predict(WithHistory(req, Scaled(req.history_moves, MaxScale)),
                        engine_state, rng) IN
       /\ r.weights.weight_mode = response.weights.weight_mode
       /\ CandidateMoves(r) = CandidateMoves(response)
       /\ r.selected_move = response.selected_move
       /\ \E i \in 1..Len(response.candidates) :
             response.candidates[i].history_frequency[1] > 0

\* C9: whenever the history frequencies sum to N = 0 (empty list or all
\* frequencies 0), weight_mode = low_sample and alpha = 0, and the selected
\* move is the one an empty history list gives, in either mode and for
\* either value of is_opponent_turn.
C9_NoHistoryInfluence ==
    (pc \in {"done", "raised"} /\ FenParses(req.fen) /\ ReqN = 0) =>
        LET r == predict(WithHistory(req, <<>>), engine_state, rng) IN
        /\ response.status = r.status
        /\ response.status = "ok" =>
              /\ response.weights.weight_mode = "low_sample"
              /\ response.weights.history = 0
              /\ response.selected_move = r.selected_move

\* Score and probability of each candidate, regardless of list order.
ScoreTable(r) ==
    { [move |-> r.candidates[i].move,
       raw_score |-> r.candidates[i].raw_score,
       final_prob |-> r.candidates[i].final_prob] :
         i \in 1..Len(r.candidates) }

WithMarkers(r, m) == [r EXCEPT !.style_markers = m]

\* C10: with is_opponent_turn = false, gamma = 0 and weight_mode =
\* non_opponent_turn; two hybrid requests differing only in style_markers
\* (no tilt, same draws) give every candidate the same raw_score and
\* final_prob, although style_fit is still computed.
C10_StyleInert ==
    (WeightsChosen /\ ~req.is_opponent_turn) =>
        /\ weights.style = 0
        /\ weights.weight_mode = "non_opponent_turn"
        /\ ( /\ Responded
             /\ response.prediction_mode = "hybrid"
             /\ engine_analysis # <<>>
             /\ ~tilt_active ) =>
               /\ response.weights.style = 0
               /\ \A m \in MarkerProfiles :
                     ScoreTable(predict(WithMarkers(req, m), engine_state, rng))
                         = ScoreTable(response)

C10_Witness ==
    /\ Responded
    /\ ~req.is_opponent_turn
    /\ response.prediction_mode = "hybrid"
    /\ engine_analysis # <<>>
    /\ ~tilt_active
    /\ \E m \in MarkerProfiles :
          LET r == predict(WithMarkers(req, m), engine_state, rng) IN
          \E i \in 1..Len(response.candidates) :
          \E j \in 1..Len(r.candidates) :
              /\ r.candidates[j].move = response.candidates[i].move
              /\ response.candidates[i].style_fit # 0
              /\ r.candidates[j].style_fit # response.candidates[i].style_fit

(***************************************************************************)
(* The /predict handler (main.py): request body -> predict -> HTTP reply   *)
(***************************************************************************)
\* How a JSON body can carry the optional boolean field.
BodyFlags == {"true", "false", "absent"}

\* Pydantic validation of the body into a PredictionRequest: the field
\* defaults to True when absent (models.py line 40).
parse_body(body) ==
    [body EXCEPT !.is_opponent_turn =
        IF body.is_opponent_turn = "absent" THEN TRUE
        ELSE body.is_opponent_turn = "true"]

\* The keyword arguments predict_move passes to predictor.predict
\* (main.py lines 74-82); opponent_username is passed and never read.
predict_move_arguments(request) ==
    [fen |-> request.fen, mode |-> request.mode,
     style_markers |-> request.style_markers,
     history_moves |-> request.history_moves,
     recent_eval_deltas |-> request.recent_eval_deltas,
     move_number |-> request.move_number]

\* Binding of predict's parameters: is_opponent_turn: bool = True.
bind_predict_arguments(kwargs) ==
    IF "is_opponent_turn" \in DOMAIN kwargs THEN kwargs
    ELSE [k \in DOMAIN kwargs \cup {"is_opponent_turn"} |->
            IF k = "is_opponent_turn" THEN TRUE ELSE kwargs[k]]

HandlerFens == {"fen_open", "fen_mate", "fen_invalid"}

HandlerHistories ==
    { <<>>, <<HM("d4", 9), HM("h3", 1)>>, <<HM("h3", 5), HM("a3", 5)>>,
      <<HM("d4", 0), HM("h3", 0)>> }

HandlerBodies ==
    { Request(fen, mode, flag, NeutralMarkers, history, <<>>, n) :
        fen \in HandlerFens, mode \in Modes, flag \in BodyFlags,
        history \in HandlerHistories, n \in {12, 36} }

InitHandler ==
    /\ http_request \in HandlerBodies
    /\ http_response = None
    /\ tasks = <<>>
    /\ in_flight = {}
    /\ req = None
    /\ engine_state \in EngineStates
    /\ pc = "handler"
    /\ weights = None
    /\ habit_detection = None
    /\ tilt_active = FALSE
    /\ working_markers = None
    /\ engine_analysis = <<>>
    /\ candidate_sans = <<>>
    /\ history_additions = <<>>
    /\ hist_i = 1
    /\ trace_log = <<>>
    /\ call_log = <<>>
    /\ rng = <<>>
    /\ response = None

\* predict_move up to the call of predictor.predict (main.py lines 62-82).
PredictMove ==
    /\ pc = "handler"
    /\ req' = bind_predict_arguments(
                  predict_move_arguments(parse_body(http_request)))
    /\ pc' = "start"
    /\ UNCHANGED <<engine_state, weights, habit_detection, tilt_active,
                   working_markers, engine_analysis, candidate_sans,
                   history_additions, hist_i, trace_log, call_log, rng,
                   response>>
    /\ UNCHANGED server_vars

\* predict_move after predict returned or raised (main.py lines 83-85).
PredictMoveReturn ==
    /\ pc \in {"done", "raised"}
    /\ http_response' =
          IF response.status = "ok"
          THEN [status_code |-> 200, body |-> response]
          ELSE [status_code |-> 500, detail |-> response.error]
    /\ pc' = "returned"
    /\ UNCHANGED <<req, engine_state, weights, habit_detection, tilt_active,
                   working_markers, engine_analysis, candidate_sans,
                   history_additions, hist_i, trace_log, call_log, rng,
                   response, http_request, tasks, in_flight>>

NextHandler ==
    \/ PredictMove
    \/ ParseFen
    \/ SelectWeights
    \/ DetectHabit
    \/ DetectTilt
    \/ AnalyzePosition
    \/ FallbackRandomMove
    \/ FallbackNoLegalMoves
    \/ PredictPureHistory
    \/ AssembleStep
    \/ Fuse
    \/ PredictMoveReturn

SpecHandler == InitHandler /\ [][NextHandler]_vars

\* C11: the is_opponent_turn value of the body posted to /predict is the
\* value the Weight Selector uses (true only when the field is absent); a
\* body with is_opponent_turn = false gets weight_mode non_opponent_turn.
C11_TurnFlagHonoured ==
    pc \in {"detect_habit", "detect_tilt", "analyze", "fallback",
            "pure_history", "assemble", "done"} =>
        /\ req.is_opponent_turn = (http_request.is_opponent_turn # "false")
        /\ http_request.is_opponent_turn = "false" =>
              weights.weight_mode = "non_opponent_turn"

(***************************************************************************)
(* Tilt detection over eval-delta lists around the threshold               *)
(***************************************************************************)
\* Longest recent_eval_deltas list tried.
MaxDeltas == 4

\* Deltas in tenths of a pawn: below, at and above -1.0.
DeltaValues == {-11, -10, 5}

DeltaLists == UNION {[1..n -> DeltaValues] : n \in 0..MaxDeltas}

TiltRequests ==
    { Request("fen_open", mode, TRUE, SpikyMarkers, history, deltas, 12) :
        mode \in Modes, history \in {<<>>, <<HM("h3", 5)>>},
        deltas \in DeltaLists }

InitTilt ==
    /\ req \in TiltRequests
    /\ engine_state \in {"ready", "absent"}
    /\ pc = "start"
    /\ weights = None
    /\ habit_detection = None
    /\ tilt_active = FALSE
    /\ working_markers = None
    /\ engine_analysis = <<>>
    /\ candidate_sans = <<>>
    /\ history_additions = <<>>
    /\ hist_i = 1
    /\ trace_log = <<>>
    /\ call_log = <<>>
    /\ rng = <<>>
    /\ response = None
    /\ http_request = None
    /\ http_response = None
    /\ tasks = <<>>
    /\ in_flight = {}

NextTilt ==
    \/ ParseFen
    \/ SelectWeights
    \/ DetectHabit
    \/ DetectTilt
    \/ AnalyzePosition
    \/ FallbackRandomMove
    \/ PredictPureHistory
    \/ AssembleStep
    \/ Fuse

SpecTilt == InitTilt /\ [][NextTilt]_vars

TiltDecided ==
    pc \in {"analyze", "fallback", "pure_history", "assemble", "done"}

\* Some entry among the last three of the request's deltas is below -1.0.
RecentDrop ==
    \E i \in 1..Len(req.recent_eval_deltas) :
        /\ i > Len(req.recent_eval_deltas) - 3
        /\ req.recent_eval_deltas[i] < -10

\* C12: tilt is detected exactly when one of the last three entries of
\* recent_eval_deltas is strictly below -1.0 (exactly -1.0 does not tilt,
\* earlier entries are ignored, an empty list gives false), and the
\* response's tilt_active is that value.
C12_TiltRule ==
    /\ TiltDecided => (tilt_active <=> RecentDrop)
    /\ Responded => (response.tilt_active <=> RecentDrop)

C12_Witness ==
    /\ Responded
    /\ Len(req.recent_eval_deltas) = 4
    /\ req.recent_eval_deltas[1] < -10
    /\ req.recent_eval_deltas[3] = -10
    /\ ~response.tilt_active

HabitDecided ==
    pc \in {"detect_tilt", "analyze", "fallback", "pure_history", "assemble",
            "done"}

\* Highest frequency listed in the request's history (0 for an empty list).
ReqTop ==
    IF req.history_moves = <<>> THEN 0
    ELSE CHOOSE f \in {req.history_moves[i].frequency :
                          i \in 1..Len(req.history_moves)} :
            \A j \in 1..Len(req.history_moves) :
                req.history_moves[j].frequency <= f

IsHabitMove(san) ==
    /\ ReqN >= 10
    /\ 10 * ReqTop >= 9 * ReqN
    /\ \E i \in 1..Len(req.history_moves) :
          /\ req.history_moves[i].move_san = san
          /\ req.history_moves[i].frequency = ReqTop

\* C14: in every response (pure_history, hybrid, engine-unavailable
\* fallback) suggested_delay_ms is 500 when the history satisfies the habit
\* condition and selected_move is the habit move, and 1500 otherwise.
C14_DelayFollowsHabit ==
    Responded =>
        response.suggested_delay_ms =
            IF IsHabitMove(response.selected_move) THEN 500 ELSE 1500

(***************************************************************************)
(* The server (main.py): handlers of concurrent requests on one event      *)
(* loop, sharing the one ScoutPredictor and its EngineWrapper              *)
(***************************************************************************)
\* Requests the server is handling at once.
NumTasks == 2

TaskIds == 1..NumTasks

\* The engine calls one predict call makes when the engine process is up,
\* in order: the Multi-PV call, then one call per history addition.
predict_engine_calls(request) ==
    IF ~FenParses(request.fen) THEN <<>>
    ELSE LET analysis == analyze_position("ready", request.fen)
             acc == assemble_candidates(request.fen, "ready", analysis,
                                        request.history_moves)
         IN <<"analyze_position">> \o
            (IF analysis # <<>> /\ request.mode = "hybrid"
             THEN [i \in 1..Len(acc.calls) |-> acc.calls[i][1]]
             ELSE <<>>)

ServerPredictRequests ==
    { Request(fen, mode, TRUE, NeutralMarkers, history, <<>>, 12) :
        fen \in {"fen_open", "fen_invalid"}, mode \in Modes,
        history \in {<<>>, <<HM("h3", 5), HM("a3", 5)>>} }

\* A handler and the engine calls its body makes: predict_move,
\* analyze_position (GET /analyze) and analyze_moves_with_style.
ServerJobs ==
    { [endpoint |-> "/predict", calls |-> predict_engine_calls(r)] :
        r \in ServerPredictRequests }
    \cup { [endpoint |-> "/analyze", calls |-> <<"analyze_position">>],
           [endpoint |-> "/analyze_moves", calls |-> <<"analyze_position">>] }

Task(job) ==
    [endpoint |-> job.endpoint, calls |-> job.calls, stage |-> "accepted"]

InitServer ==
    /\ tasks \in [TaskIds -> {Task(job) : job \in ServerJobs}]
    /\ in_flight = {}
    /\ http_request = None
    /\ http_response = None
    /\ req = None
    /\ engine_state = "ready"
    /\ pc = "serving"
    /\ weights = None
    /\ habit_detection = None
    /\ tilt_active = FALSE
    /\ working_markers = None
    /\ engine_analysis = <<>>
    /\ candidate_sans = <<>>
    /\ history_additions = <<>>
    /\ hist_i = 1
    /\ trace_log = <<>>
    /\ call_log = <<>>
    /\ rng = <<>>
    /\ response = None

\* Faulty variant: handlers declared with def, which the framework runs in
\* pool threads side by side.
LoopFreeThreadPool == TRUE

\* The handlers are coroutines (async def) whose bodies never await: the
\* event loop starts one only when no other is in the middle of its body.
LoopFree == \A t \in TaskIds : tasks[t].stage # "running"

\* The event loop starts the handler coroutine of an accepted request.
RunHandler ==
    \E t \in TaskIds :
        /\ tasks[t].stage = "accepted"
        /\ LoopFree
        /\ tasks' = [tasks EXCEPT ![t].stage = "running"]
        /\ UNCHANGED <<in_flight, http_request, http_response>>
        /\ UNCHANGED predict_vars

\* self.engine.analyse(...) is entered: the call is on the engine process.
BeginEngineCall ==
    \E t \in TaskIds :
        /\ tasks[t].stage = "running"
        /\ tasks[t].calls # <<>>
        /\ \A c \in in_flight : c[1] # t
        /\ in_flight' = in_flight \cup {<<t, Head(tasks[t].calls)>>}
        /\ UNCHANGED <<tasks, http_request, http_response>>
        /\ UNCHANGED predict_vars

\* self.engine.analyse(...) returns to the handler.
EndEngineCall ==
    \E c \in in_flight :
        /\ in_flight' = in_flight \ {c}
        /\ tasks' = [tasks EXCEPT ![c[1]].calls = Tail(tasks[c[1]].calls)]
        /\ UNCHANGED <<http_request, http_response>>
        /\ UNCHANGED predict_vars

\* The handler returns its result (or raises HTTPException).
ReturnHandler ==
    \E t \in TaskIds :
        /\ tasks[t].stage = "running"
        /\ tasks[t].calls = <<>>
        /\ tasks' = [tasks EXCEPT ![t].stage = "returned"]
        /\ UNCHANGED <<in_flight, http_request, http_response>>
        /\ UNCHANGED predict_vars

NextServer ==
    \/ RunHandler
    \/ BeginEngineCall
    \/ EndEngineCall
    \/ ReturnHandler

SpecServer == InitServer /\ [][NextServer]_vars

\* C15: across any interleaving of the handlers of concurrent requests
\* (/predict, /analyze, /analyze_moves) sharing the one EngineWrapper, at
\* most one engine analysis call is in flight on the engine process.
C15_OneEngineCallInFlight == Cardinality(in_flight) <= 1

C15_Witness ==
    /\ \E c \in in_flight : c[2] = "analyze_single_move"
    /\ \E t \in TaskIds :
          /\ tasks[t].stage = "accepted"
          /\ tasks[t].calls # <<>>

\* C16: within one predict call, weight selection and habit detection are
\* complete before the first engine call; the Multi-PV analyze_position
\* call is complete before any analyze_single_move call; and fusion, softmax
\* and selection start only after the last engine call has returned.
C16_StepOrder ==
    [][ /\ call_log' # call_log =>
              /\ WeightsChosen
              /\ HabitDecided
              /\ pc # "done"
              /\ rng = <<>>
              /\ Len(call_log') = Len(call_log) + 1
              /\ IF call_log = <<>>
                 THEN call_log'[1][1] = "analyze_position"
                 ELSE /\ call_log[1][1] = "analyze_position"
                      /\ pc = "assemble"
                      /\ call_log'[Len(call_log')][1] = "analyze_single_move"
        /\ (rng' # rng \/ pc' = "done") =>
              /\ call_log' = call_log
              /\ (req.mode = "hybrid" /\ engine_analysis # <<>>) =>
                     hist_i > Len(req.history_moves)
        /\ pc = "done" => call_log' = call_log
      ]_vars

C16_Witness ==
    /\ Responded
    /\ response.prediction_mode = "hybrid"
    /\ Len(call_log) = 3
    /\ call_log[1][1] = "analyze_position"
    /\ call_log[3][1] = "analyze_single_move"
    /\ Len(rng) = 2

(***************************************************************************)
(* predict under every condition of the engine                             *)
(***************************************************************************)
EngineRequests ==
    { Request(fen, mode, opp, markers, history, deltas, 12) :
        fen \in {"fen_open", "fen_sharp", "fen_mate"}, mode \in Modes,
        opp \in BOOLEAN, markers \in RequestMarkers, deltas \in EvalDeltas,
        history \in {<<>>, <<HM("d4", 9), HM("h3", 1)>>,
                     <<HM("h3", 5), HM("a3", 5)>>} }

InitEngine ==
    /\ req \in EngineRequests
    /\ engine_state \in AllEngineStates
    /\ pc = "start"
    /\ weights = None
    /\ habit_detection = None
    /\ tilt_active = FALSE
    /\ working_markers = None
    /\ engine_analysis = <<>>
    /\ candidate_sans = <<>>
    /\ history_additions = <<>>
    /\ hist_i = 1
    /\ trace_log = <<>>
    /\ call_log = <<>>
    /\ rng = <<>>
    /\ response = None
    /\ http_request = None
    /\ http_response = None
    /\ tasks = <<>>
    /\ in_flight = {}

SpecEngine == InitEngine /\ [][Next]_vars

\* The Multi-PV call was made and gave nothing, on a position with legal
\* moves.
NoEngineOutput ==
    /\ call_log # <<>>
    /\ engine_analysis = <<>>
    /\ LegalSans(req.fen) # {}

\* C17: when the Multi-PV call yields no output (engine absent, error or
\* empty result) on a position with legal moves, predict returns a
\* response whose selected_move is a legal move of the FEN, whose candidates
\* list is empty and whose trace_log has a warning entry, in both modes.
C17_FallbackResponse ==
    /\ NoEngineOutput => pc \in {"fallback", "done"}
    /\ (NoEngineOutput /\ pc = "fallback") => ENABLED FallbackRandomMove
    /\ (NoEngineOutput /\ pc = "done") =>
          /\ response.status = "ok"
          /\ response.prediction_mode = req.mode
          /\ response.selected_move \in LegalSans(req.fen)
          /\ response.candidates = <<>>
          /\ \E i \in 1..Len(response.trace_log) :
                response.trace_log[i].type = "warning"

C17_Witness ==
    /\ NoEngineOutput
    /\ pc = "done"
    /\ engine_state = "analyse_error"
    /\ req.mode = "pure_history"
    /\ req.history_moves # <<>>

\* C18: predict raises only for an unparsable FEN or a position with no
\* legal moves; with a parsable, non-terminal FEN it returns a response for
\* any history list with non-negative frequencies (all-zero frequencies and
\* illegal SANs included), either mode and any engine outcome.
C18_RaisesOnlyOnBadPosition ==
    pc = "raised" => (~FenParses(req.fen) \/ LegalSans(req.fen) = {})

\* C19: in a hybrid request where the engine's rank-1 move is forcing and
\* leads the rank-2 move by more than 200 cp, the response has
\* tactical_guardrail.triggered with eval_delta the gap, and the fusion
\* weights are alpha = 0, beta = 1, gamma = 0.
C19_GuardrailTriggers ==
    ( /\ Responded
      /\ response.prediction_mode = "hybrid"
      /\ Len(engine_analysis) >= 2
      /\ is_forcing_move(req.fen, engine_analysis[1].move_san)
      /\ engine_analysis[1].score_cp - engine_analysis[2].score_cp > 200 ) =>
        /\ response.tactical_guardrail.triggered
        /\ response.tactical_guardrail.eval_delta =
               engine_analysis[1].score_cp - engine_analysis[2].score_cp
        /\ response.weights.history = 0
        /\ response.weights.engine = 100
        /\ response.weights.style = 0

\* Sum of the final_prob numerators of the first i candidates.
RECURSIVE ProbUpTo(_, _)
ProbUpTo(cands, i) ==
    IF i = 0 THEN 0 ELSE ProbUpTo(cands, i - 1) + cands[i].final_prob[1]

\* Index the probability draw r = v percent lands on: the first candidate
\* whose cumulative final_prob reaches r, the first candidate if none does.
DrawLandsOn(cands, v) ==
    LET hit == {i \in 1..Len(cands) :
                   v * cands[i].final_prob[2] <= ProbUpTo(cands, i)}
    IN IF hit = {} THEN 1
       ELSE CHOOSE i \in hit : \A j \in hit : i <= j

\* C20: with the same random stream, engine outputs and request, predict
\* returns the same response: the response is a function of the three.  The
\* only draws are the blunder test, then the blunder index choice or the
\* CDF draw (hybrid), or the legal-move choice (fallback), taken in that
\* order from the one stream; pure-history mode draws nothing.
C20_Deterministic ==
    Responded =>
        /\ response = predict(req, engine_state, rng)
        /\ response.trace_log = trace_log
        /\ IF engine_analysis = <<>>
           THEN /\ Len(rng) = 1
                /\ response.selected_move =
                      LegalList(req.fen)[(rng[1] * Len(LegalList(req.fen))) \div 100 + 1]
           ELSE IF response.prediction_mode = "pure_history"
           THEN rng = <<>>
           ELSE /\ Len(rng) = 2
                /\ response.blunder_applied <=>
                      /\ rng[1] * 100 < working_markers.blunder_rate
                                           * Min2(10, Tension(req.fen))
                      /\ Len(response.candidates) >= 4
                /\ response.selected_move =
                      response.candidates[
                          IF response.blunder_applied
                          THEN (IF rng[2] < 50 THEN 3 ELSE 4)
                          ELSE DrawLandsOn(response.candidates, rng[2])].move

C20_Witness ==
    /\ Responded
    /\ response.prediction_mode = "hybrid"
    /\ response.blunder_applied
    /\ rng = <<0, 99>>
    /\ response.selected_move = response.candidates[4].move

\* Candidates i and i + 1 of a response are in order: final_prob falling,
\* or equal with engine_rank rising.  The final_prob values of one response
\* share their denominator.
InOrder(cands, i) ==
    /\ cands[i].final_prob[2] = cands[i + 1].final_prob[2]
    /\ \/ cands[i].final_prob[1] > cands[i + 1].final_prob[1]
       \/ /\ cands[i].final_prob[1] = cands[i + 1].final_prob[1]
          /\ cands[i].engine_rank < cands[i + 1].engine_rank

\* C21: in every response, in both modes, the candidates list is ordered by
\* final_prob descending, and candidates with equal final_prob appear in
\* ascending engine_rank order.
C21_CandidatesSorted ==
    Responded =>
        \A i \in 1..(Len(response.candidates) - 1) :
            InOrder(response.candidates, i)

\* The same, for hybrid responses only.
HybridCandidatesSorted ==
    (Responded /\ response.prediction_mode = "hybrid") =>
        \A i \in 1..(Len(response.candidates) - 1) :
            InOrder(response.candidates, i)

\* The history move the loop of _predict_hybrid is about to look at is a
\* significant one that is not yet a candidate.
AtSignificantMove ==
    /\ pc = "assemble"
    /\ hist_i <= Len(req.history_moves)
    /\ req.history_moves[hist_i].move_san \notin Range(candidate_sans)
    /\ \/ /\ SumFreq(req.history_moves) > 0
          /\ 100 * req.history_moves[hist_i].frequency
                >= 10 * SumFreq(req.history_moves)
       \/ req.history_moves[hist_i].frequency >= 5

\* The step about to be taken is a degrade path: the significant move is
\* dropped because it does not parse to a legal move, or it is legal and
\* its supplementary evaluation fails and falls back to -100.
DegradePathTaken ==
    /\ AtSignificantMove
    /\ \/ req.history_moves[hist_i].move_san \notin LegalSans(req.fen)
       \/ engine_state = "single_error"

\* C22: every degrade path taken during a request appends at least one
\* trace_log entry: a supplementary single-move evaluation that fails and
\* falls back to score_cp = -100, and a significant history move dropped
\* because it is illegal or unparsable, each make the trace log longer.
C22_DegradeLeavesTrace ==
    [][DegradePathTaken => Len(trace_log') > Len(trace_log)]_vars

\* The extended candidate list the normalizers of a hybrid response saw.
ExtendedAnalysis == engine_analysis \o history_additions

HybridResponded == Responded /\ response.prediction_mode = "hybrid"

\* E of entry i of the extended list, as <<numerator, denominator>> with a
\* positive denominator.
EngineScore(i) ==
    normalize_engine_evals(ExtendedAnalysis, ExtendedAnalysis[i].score_cp)

\* C23: in hybrid mode the normalized engine score E of every candidate of
\* the extended set lies in [0, 1], and, when the scores are not all equal,
\* a candidate with the maximum score_cp has E = 1 and a candidate with the
\* minimum score_cp has E = 0.
C23_EngineScoreInUnitRange ==
    HybridResponded =>
        LET n == Len(ExtendedAnalysis)
            IsMax(i) == \A j \in 1..n : ExtendedAnalysis[j].score_cp
                                           <= ExtendedAnalysis[i].score_cp
            IsMin(i) == \A j \in 1..n : ExtendedAnalysis[j].score_cp
                                           >= ExtendedAnalysis[i].score_cp
        IN /\ \A i \in 1..n :
                /\ EngineScore(i)[2] > 0
                /\ 0 <= EngineScore(i)[1]
                /\ EngineScore(i)[1] <= EngineScore(i)[2]
           /\ (\E i, j \in 1..n : ExtendedAnalysis[i].score_cp
                                     # ExtendedAnalysis[j].score_cp) =>
                \A i \in 1..n :
                    /\ IsMax(i) => EngineScore(i)[1] = EngineScore(i)[2]
                    /\ IsMin(i) => EngineScore(i)[1] = 0

\* C24: when the score range used by _normalize_engine_evals is 0 (the
\* first and last entries of the extended list, or all entries, have the
\* same score_cp), every candidate's normalized engine score E is 1.
C24_ZeroRangeGivesOne ==
    ( /\ HybridResponded
      /\ ExtendedAnalysis # <<>>
      /\ ExtendedAnalysis[1].score_cp
            = ExtendedAnalysis[Len(ExtendedAnalysis)].score_cp ) =>
        \A i \in 1..Len(ExtendedAnalysis) :
            EngineScore(i)[1] = EngineScore(i)[2]

(***************************************************************************)
(* The Candidate Assembler over histories around the significance          *)
(* thresholds                                                              *)
(***************************************************************************)
MaxGames == 6

\* d4 is an engine move and only fills the sample; h3 and a3 are outside
\* the engine's lines, with every frequency up to MaxGames, in both orders.
AssembleHistories ==
    { <<HM("d4", filler), HM("h3", f), HM("a3", g)>> :
        filler \in {0, 36, 60}, f \in 0..MaxGames, g \in 0..MaxGames }
    \cup
    { <<HM("a3", g), HM("h3", f), HM("d4", filler)>> :
        filler \in {0, 36, 60}, f \in 0..MaxGames, g \in 0..MaxGames }

AssembleRequests ==
    { Request(fen, "hybrid", TRUE, NeutralMarkers, history, <<>>, 12) :
        fen \in PlayableFens, history \in AssembleHistories }

InitAssemble ==
    /\ req \in AssembleRequests
    /\ engine_state \in {"ready", "single_error"}
    /\ pc = "start"
    /\ weights = None
    /\ habit_detection = None
    /\ tilt_active = FALSE
    /\ working_markers = None
    /\ engine_analysis = <<>>
    /\ candidate_sans = <<>>
    /\ history_additions = <<>>
    /\ hist_i = 1
    /\ trace_log = <<>>
    /\ call_log = <<>>
    /\ rng = <<>>
    /\ response = None
    /\ http_request = None
    /\ http_response = None
    /\ tasks = <<>>
    /\ in_flight = {}

\* The steps of a hybrid request whose Multi-PV call succeeds.
NextHybrid ==
    \/ ParseFen
    \/ SelectWeights
    \/ DetectHabit
    \/ DetectTilt
    \/ AnalyzePosition
    \/ AssembleStep
    \/ Fuse

SpecAssemble == InitAssemble /\ [][NextHybrid]_vars

\* History move i of the request qualifies for addition.
Eligible(i) ==
    LET hm == req.history_moves[i]
        n  == SumFreq(req.history_moves)
    IN /\ \A k \in 1..Len(engine_analysis) :
              engine_analysis[k].move_san # hm.move_san
       /\ \/ (n > 0 /\ 100 * hm.frequency >= 10 * n)
          \/ hm.frequency >= 5
       /\ hm.move_san \in LegalSans(req.fen)

\* The history index of the k-th addition: the eligible index with k - 1
\* eligible indices before it.
AdditionIndex(k) ==
    CHOOSE i \in 1..Len(req.history_moves) :
        /\ Eligible(i)
        /\ Cardinality({j \in 1..(i - 1) : Eligible(j)}) = k - 1

ThresholdMarkers ==
    { [aggression_index |-> a, queen_trade_avoidance |-> q,
       material_greed |-> g, complexity_preference |-> c,
       space_expansion |-> sp, blunder_rate |-> 50,
       time_pressure_weakness |-> 500] :
        a \in {750, 751}, q \in {800, 801}, g \in {700, 701},
        c \in {299, 300, 800, 801}, sp \in {600, 601} }

FusionRequests ==
    { Request(fen, "hybrid", TRUE, markers, history, deltas, 12) :
        fen \in PlayableFens, markers \in ThresholdMarkers \cup MarkerProfiles,
        history \in {<<>>, <<HM("h3", 5), HM("a3", 5)>>},
        deltas \in EvalDeltas }

InitFusion ==
    /\ req \in FusionRequests
    /\ engine_state = "ready"
    /\ pc = "start"
    /\ weights = None
    /\ habit_detection = None
    /\ tilt_active = FALSE
    /\ working_markers = None
    /\ engine_analysis = <<>>
    /\ candidate_sans = <<>>
    /\ history_additions = <<>>
    /\ hist_i = 1
    /\ trace_log = <<>>
    /\ call_log = <<>>
    /\ rng = <<>>
    /\ response = None
    /\ http_request = None
    /\ http_response = None
    /\ tasks = <<>>
    /\ in_flight = {}

SpecFusion == InitFusion /\ [][NextHybrid]_vars

\* C26: in hybrid mode blunder_applied implies at least 4 candidates and a
\* selected move at index 2 or 3 (counting from 0) of the sorted list; with
\* a working blunder_rate of 0, a board tension of 0 or fewer than 4
\* candidates the blunder branch is not taken: blunder_applied is false and
\* the selected move is the one the CDF draw lands on.
C26_BlunderBranch ==
    (HybridResponded /\ engine_analysis # <<>>) =>
        LET cands == response.candidates IN
        /\ response.blunder_applied =>
              /\ Len(cands) >= 4
              /\ response.selected_move \in {cands[3].move, cands[4].move}
        /\ ( \/ working_markers.blunder_rate = 0
             \/ Tension(req.fen) = 0
             \/ Len(cands) < 4 ) =>
              /\ ~response.blunder_applied
              /\ response.selected_move = cands[DrawLandsOn(cands, rng[2])].move

\* A blunder on a board with tension, and its index.
C26_Witness ==
    /\ HybridResponded
    /\ response.blunder_applied
    /\ Len(response.candidates) = 7
    /\ rng[2] = 0
    /\ response.selected_move = response.candidates[3].move

\* The same draw on a board without tension: no blunder.
C26_WitnessNoTension ==
    /\ HybridResponded
    /\ Tension(req.fen) = 0
    /\ working_markers.blunder_rate > 0
    /\ rng[1] = 0
    /\ ~response.blunder_applied

\* The source with the largest weight, history before style before engine
\* on ties.
LargestWeightSource(w) ==
    IF w.history >= w.style /\ w.history >= w.engine THEN "history"
    ELSE IF w.style >= w.engine THEN "style"
    ELSE "engine"

\* C27: in every response whose move_source the predictor computed (both
\* modes), primary_source is the source with the largest of the response's
\* weights alpha, gamma, beta, ties resolved history over style over engine,
\* and the three contributions are 100 * alpha, 100 * gamma, 100 * beta.
C27_MoveSourceFollowsWeights ==
    (Responded /\ engine_analysis # <<>>) =>
        /\ response.move_source.primary_source
              = LargestWeightSource(response.weights)
        /\ response.move_source.history_contribution = response.weights.history
        /\ response.move_source.style_contribution = response.weights.style
        /\ response.move_source.engine_contribution = response.weights.engine

\* The same, for hybrid responses only.
HybridMoveSourceFollowsWeights ==
    (HybridResponded /\ engine_analysis # <<>>) =>
        /\ response.move_source.primary_source
              = LargestWeightSource(response.weights)
        /\ response.move_source.history_contribution = response.weights.history
        /\ response.move_source.style_contribution = response.weights.style
        /\ response.move_source.engine_contribution = response.weights.engine

\* C28: calculate_style_fit returns a total equal to the sum of the five
\* contributions of the returned attribution; a contribution is non-zero
\* only if its marker threshold (aggression > 75, queen_trade_avoidance
\* > 80, material_greed > 70, complexity > 80 or < 30, space_expansion
\* > 60, all strict) and its feature test both hold; aggression_bonus is
\* one of 0, 0.15, 0.20, 0.35 and trade_penalty is 0 or -0.50.
C28_StyleFitAdditive ==
    (HybridResponded /\ engine_analysis # <<>>) =>
        \A i \in 1..Len(response.candidates) :
            LET c == response.candidates[i]
                a == c.attribution
                f == BoardFeatures(req.fen, c.move)
                d == TensionDelta(req.fen, c.move)
                m == working_markers
            IN /\ c.style_fit = a.aggression_bonus + a.complexity_bonus
                                  + a.trade_penalty + a.greed_bonus + a.space_bonus
               /\ a.aggression_bonus \in {0, 15, 20, 35}
               /\ a.trade_penalty \in {0, -50}
               /\ a.aggression_bonus # 0 =>
                     /\ m.aggression_index > 750
                     /\ f \cap {"check_or_threat", "king_pressure"} # {}
               /\ a.trade_penalty # 0 =>
                     (m.queen_trade_avoidance > 800 /\ "queen_trade" \in f)
               /\ a.greed_bonus # 0 =>
                     (m.material_greed > 700 /\ "material_grab" \in f)
               /\ a.complexity_bonus # 0 =>
                     \/ (m.complexity_preference > 800 /\ d > 2)
                     \/ (m.complexity_preference < 300 /\ d > 3)
               /\ a.space_bonus # 0 =>
                     (m.space_expansion > 600 /\ "space" \in f)

\* A move on which three contributions stack, next to one with none.
C28_Witness ==
    /\ HybridResponded
    /\ ~tilt_active
    /\ req.style_markers.aggression_index = 751
    /\ req.style_markers.material_greed = 701
    /\ req.style_markers.queen_trade_avoidance = 800
    /\ \E c \in Range(response.candidates) :
          /\ c.attribution.aggression_bonus = 35
          /\ c.attribution.greed_bonus = 30
          /\ c.style_fit = 65
    /\ \E c \in Range(response.candidates) :
          /\ "queen_trade" \in BoardFeatures(req.fen, c.move)
          /\ c.attribution.trade_penalty = 0

\* The markers the claim expects after tilt, from the request's markers.
ExpectedTilted(m) ==
    [aggression_index       |-> IF 2 * m.aggression_index < 1000
                                THEN 2 * m.aggression_index ELSE 1000,
     queen_trade_avoidance  |-> m.queen_trade_avoidance,
     material_greed         |-> IF 3 * m.material_greed < 2000
                                THEN (3 * m.material_greed) \div 2 ELSE 1000,
     complexity_preference  |-> m.complexity_preference,
     space_expansion        |-> m.space_expansion,
     blunder_rate           |-> IF 2 * m.blunder_rate < 1000
                                THEN 2 * m.blunder_rate ELSE 1000,
     time_pressure_weakness |-> m.time_pressure_weakness]

\* The tilt step leaves the request as it was and sets the working markers.
TiltStepFrame ==
    pc = "detect_tilt" =>
        /\ req' = req
        /\ tilt_active' => working_markers' = ExpectedTilted(req.style_markers)
        /\ ~tilt_active' => working_markers' = req.style_markers

\* A tilted hybrid response scores style and tests for a blunder with the
\* modified markers.
TiltedResponseUsesModified ==
    (HybridResponded /\ engine_analysis # <<>> /\ tilt_active) =>
        LET t == ExpectedTilted(req.style_markers) IN
        /\ \A i \in 1..Len(response.candidates) :
              LET c == response.candidates[i]
                  f == BoardFeatures(req.fen, c.move)
              IN /\ c.attribution.aggression_bonus > 0 <=>
                        /\ t.aggression_index > 750
                        /\ f \cap {"check_or_threat", "king_pressure"} # {}
                 /\ c.attribution.greed_bonus > 0 <=>
                        (t.material_greed > 700 /\ "material_grab" \in f)
        /\ response.blunder_applied <=>
              /\ rng[1] * 100 < t.blunder_rate * Min2(10, Tension(req.fen))
              /\ Len(response.candidates) >= 4

\* C29: apply_tilt_modifiers returns new markers with aggression_index =
\* min(100, 2x), material_greed = min(100, 1.5x), blunder_rate = min(100, 2x)
\* and the four other markers as in the input; the input markers are left
\* unchanged; and when tilt is active in hybrid mode the style-fit scoring
\* and the blunder test use the modified markers (aggression 40 becomes 80
\* and enables the > 75 aggression branch).
C29_TiltModifiers ==
    /\ [][TiltStepFrame]_vars
    /\ []TiltedResponseUsesModified

\* Aggression 40 doubled to 80: a move with a threat gets the bonus.
C29_Witness ==
    /\ HybridResponded
    /\ tilt_active
    /\ req.style_markers.aggression_index = 400
    /\ working_markers.aggression_index = 800
    /\ working_markers.blunder_rate = 1000
    /\ \E c \in Range(response.candidates) : c.attribution.aggression_bonus = 20

\* C30: in every response returned by predict, the engine-unavailable
\* fallback included, the habit_detection field is the Habit Detector's
\* result for the request's history: whenever the trace log carries the
\* HABIT banner, habit_detection.detected is true with the banner's move
\* and sample size.
C30_HabitFieldMatchesBanner ==
    Responded =>
        /\ response.habit_detection = habit_detection
        /\ \A i \in 1..Len(response.trace_log) :
              response.trace_log[i].tag = "HABIT" =>
                 /\ response.habit_detection.detected
                 /\ response.habit_detection.move = response.trace_log[i].move
                 /\ response.habit_detection.sample_size
                       = response.trace_log[i].value

\* The same, for responses built after a successful Multi-PV call.
EngineResponseHabitMatchesBanner ==
    (Responded /\ engine_analysis # <<>>) =>
        /\ response.habit_detection = habit_detection
        /\ \A i \in 1..Len(response.trace_log) :
              response.trace_log[i].tag = "HABIT" =>
                 /\ response.habit_detection.detected
                 /\ response.habit_detection.move = response.trace_log[i].move
                 /\ response.habit_detection.sample_size
                       = response.trace_log[i].value

====
